---------------------------- MODULE Spec2Model ----------------------------
(***************************************************************************)
(* A model of the healthcare Pub/Sub -> Neo4j ingestion service.           *)
(*                                                                         *)
(*   src/healthcare_neo4j_service.py   the graph write handlers            *)
(*   src/healthcare_app.py             the dispatcher, the metrics, the    *)
(*                                     pull callback                       *)
(*                                                                         *)
(* The graph store holds nodes and relationships, each with an identity of *)
(* its own, so two nodes with the same label, id and properties stay       *)
(* distinct.                                                               *)
(* A message is a Python dict: a function from the keys it holds to their  *)
(* values.  The write timestamp each handler stores (updated_at,           *)
(* created_at) is the wall clock and is left out of the properties.        *)
(***************************************************************************)
EXTENDS Integers, Sequences, FiniteSets, TLC

VARIABLES
    nodes,      \* the store's nodes: node |-> [label, props]
    edges,      \* the store's relationships: relationship |-> props
    last,       \* the last call of process_healthcare_message: [data, outcome]
    tx,         \* the write transaction of a call, followed statement by statement
    stats,      \* performance_stats, the counters the dispatcher keeps
    tasks,      \* the dispatch task of each delivery on the worker pool
    callbacks,  \* the pull callback of each delivery
    webhooks,   \* the push webhook request of each delivery
    direct,     \* a request to the direct processing endpoint
    reader,     \* a request to an endpoint that reports the counters
    shutdown,   \* how far graceful_shutdown has got
    run,        \* a run of the publisher: its inputs and the main thread
    batches,    \* the publish_message_batch task of each batch
    metrics,    \* the publisher's HealthcarePublisherMetrics
    monitor,    \* a thread that takes a snapshot of the metrics
    report,     \* what get_healthcare_statistics returned
    ingested,   \* the records of a data set that the service has ingested
    demo        \* a run of the demo automation and the cloud project it acts on

\* what the HTTP endpoints and the signal handler keep
\* what the publisher and the statistics query keep
toolVars == <<run, batches, metrics, monitor, report, ingested, demo>>

sideVars == <<webhooks, direct, reader, shutdown, toolVars>>

appVars == <<stats, tasks, callbacks, sideVars>>

vars == <<nodes, edges, last, tx, stats, tasks, callbacks, webhooks, direct,
          reader, shutdown, run, batches, metrics, monitor, report, ingested,
          demo>>

---------------------------------------------------------------------------
(* Bounds *)

\* the most nodes the store is grown to
MaxNodes == 3

\* the most times the driver runs the handler of one call
MaxAttempts == 2

\* the number of messages the subscription delivers
MaxDeliveries == 2

\* the most records a run of the publisher is given
MaxRecords == 3

\* the largest batch_size of a run
MaxBatchSize == 2

\* the largest max_workers of a run
MaxWorkers == 2

---------------------------------------------------------------------------
(* Python dicts *)

\* the dict with no keys
EmptyDict == <<>>

\* dict.get(key, default)
Get(data, key, default) == IF key \in DOMAIN data THEN data[key] ELSE default

\* the truth value Python gives a foreign id read with data.get(key): None
\* (the key is missing) and the empty string are false
Truthy(data, key) == key \in DOMAIN data /\ data[key] # ""

\* str.lower() on the type strings the model feeds in
Lower(s) ==
    CASE s = "Doctor" -> "doctor"
      [] s = "LAB" -> "lab"
      [] OTHER -> s

\* str.title() on the type strings the model feeds in
Title(s) ==
    CASE s = "hospital" -> "Hospital"
      [] s = "doctor" -> "Doctor"
      [] s = "patient" -> "Patient"
      [] s = "diagnosis" -> "Diagnosis"
      [] s = "medication" -> "Medication"
      [] s = "procedure" -> "Procedure"
      [] s = "lab" -> "Lab"
      [] s = "LAB" -> "Lab"
      [] s = "lab result" -> "Lab Result"
      [] s = "lab:result" -> "Lab:Result"
      [] OTHER -> s

\* whether the text can stand after the colon of a node pattern in a Cypher
\* statement: an identifier, or identifiers with colons between them
IsIdentifier(s) == s \notin {"", "Lab Result"}

\* the labels of a node created with the text after the colon of its pattern
Labels(l) == IF l = "Lab:Result" THEN <<"Lab", "Result">> ELSE <<l>>

LabelSet(l) == {Labels(l)[i] : i \in DOMAIN Labels(l)}

---------------------------------------------------------------------------
(* The Cypher statements the handlers run, and what the store does with    *)
(* each.  A graph is [nodes |-> ..., edges |-> ...].  The store gives each *)
(* node and relationship an identity of its own: here a node is named      *)
(* <<label, id, n>>, the n-th node created with that label and id, and     *)
(* maps to its label and properties; a relationship is named               *)
(* <<type, source, target, n>>, the n-th of that type between the two      *)
(* nodes, and maps to its properties.                                      *)

\* the nodes created so far with that label and id property
NodeCopies(g, label, id) ==
    {k \in DOMAIN g.nodes : k[1] = label /\ k[2] = id}

\* a new node with that label and those properties
NewNode(g, label, props) ==
    LET id == IF "id" \in DOMAIN props THEN props["id"] ELSE "<none>"
        key == <<label, id, Cardinality(NodeCopies(g, label, id)) + 1>>
    IN  [g EXCEPT !.nodes = @ @@ (key :> [label |-> label, props |-> props])]

\* MATCH (n:label {id: id}): the nodes with that label whose id property is id
Match(g, label, id) ==
    {k \in DOMAIN g.nodes :
        /\ g.nodes[k].label = label
        /\ "id" \in DOMAIN g.nodes[k].props
        /\ g.nodes[k].props["id"] = id}

\* MERGE ... ON CREATE SET: the properties are written only to a node the
\* statement creates
MergeNode_OnCreate(g, q) ==
    IF Match(g, q.label, q.id) = {}
    THEN NewNode(g, q.label, ("id" :> q.id) @@ q.props)
    ELSE g

\* MERGE (n:label {id: id}) SET n.k = v, ...: every node the pattern matches
\* gets the properties; when none matches, one is created
MergeNode(g, q) ==
    LET hit == Match(g, q.label, q.id)
    IN  IF hit = {}
        THEN NewNode(g, q.label, ("id" :> q.id) @@ q.props)
        ELSE [g EXCEPT !.nodes =
                 [k \in DOMAIN @ |->
                     IF k \in hit
                     THEN [@[k] EXCEPT !.props = q.props @@ @]
                     ELSE @[k]]]

\* MERGE (n:label {id: id}) SET n = props in place of CREATE
CreateNode_Merge(g, q) ==
    IF Match(g, q.label, q.props["id"]) = {}
    THEN NewNode(g, q.label, q.props)
    ELSE g

\* CREATE (n:label {props}): always a new node
CreateNode(g, q) == NewNode(g, q.label, q.props)

\* the relationships of that type from node a to node b
EdgeCopies(es, type, a, b) ==
    {k \in DOMAIN es : k[1] = type /\ k[2] = a /\ k[3] = b}

\* whether a relationship of that type and with those properties already
\* goes from node a to node b
HasEdge(es, type, a, b, props) ==
    \E k \in EdgeCopies(es, type, a, b) : es[k] = props

NewEdge(es, type, a, b, props) ==
    es @@ (<<type, a, b, Cardinality(EdgeCopies(es, type, a, b)) + 1>> :> props)

\* CREATE (a)-[:type {props}]->(b) in place of MERGE
MergeEdge_Create(es, type, a, b, props) == NewEdge(es, type, a, b, props)

\* a relationship that takes the place of the relationships of its type
\* that go from node a to other nodes
MergeEdge_Replace(es, type, a, b, props) ==
    LET kept == {k \in DOMAIN es : ~(k[1] = type /\ k[2] = a /\ k[3] # b)}
        rest == [k \in kept |-> es[k]]
    IN  IF HasEdge(rest, type, a, b, props) THEN rest
        ELSE NewEdge(rest, type, a, b, props)

\* MERGE (a)-[:type {props}]->(b) for one matched pair: a no-op when the
\* relationship is there
MergeEdge(es, type, a, b, props) ==
    IF HasEdge(es, type, a, b, props) THEN es ELSE NewEdge(es, type, a, b, props)

\* the MERGE of every matched pair, one after the other
RECURSIVE MergeEdges(_, _, _, _)
MergeEdges(es, type, pairs, props) ==
    IF pairs = {} THEN es
    ELSE LET p == CHOOSE x \in pairs : TRUE
         IN  MergeEdges(MergeEdge(es, type, p[1], p[2], props),
                        type, pairs \ {p}, props)

\* MERGE (a:slabel {id: sid})-[:type]->(b:dlabel {id: did}) on the whole
\* pattern: an endpoint that is not there is created with the relationship
Link_MergePath(g, q) ==
    LET g1 == IF Match(g, q.slabel, q.sid) = {}
              THEN NewNode(g, q.slabel, "id" :> q.sid)
              ELSE g
        g2 == IF Match(g1, q.dlabel, q.did) = {}
              THEN NewNode(g1, q.dlabel, "id" :> q.did)
              ELSE g1
        pairs == Match(g2, q.slabel, q.sid) \X Match(g2, q.dlabel, q.did)
    IN  [g2 EXCEPT !.edges = MergeEdges(@, q.type, pairs, q.props)]

\* MATCH (a:slabel {id: sid}) MATCH (b:dlabel {id: did})
\* MERGE (a)-[:type {props}]->(b): one MERGE per matched pair, none when
\* either MATCH finds nothing
Link(g, q) ==
    LET pairs == Match(g, q.slabel, q.sid) \X Match(g, q.dlabel, q.did)
    IN  [g EXCEPT !.edges = MergeEdges(@, q.type, pairs, q.props)]

\* tx.run(query, parameters)
RunQuery(g, q) ==
    CASE q.op = "MERGE_NODE" -> MergeNode(g, q)
      [] q.op = "CREATE_NODE" -> CreateNode(g, q)
      [] q.op = "LINK" -> Link(g, q)

RECURSIVE RunAll(_, _)
RunAll(g, qs) ==
    IF qs = <<>> THEN g ELSE RunAll(RunQuery(g, Head(qs)), Tail(qs))

---------------------------------------------------------------------------
(* The write handlers: each gives the statements it runs in the            *)
(* transaction, in order, and the dict it returns.  data['id'] raises      *)
(* KeyError for a dict without the key; it is evaluated for the first      *)
(* tx.run, so the handler raises before it has run a statement.            *)

Raise(error) == [raised |-> TRUE, error |-> error, stmts |-> <<>>]

Return(stmts, result) == [raised |-> FALSE, stmts |-> stmts, result |-> result]

MergeStmt(label, id, props) ==
    [op |-> "MERGE_NODE", label |-> label, id |-> id, props |-> props]

CreateStmt(label, props) == [op |-> "CREATE_NODE", label |-> label, props |-> props]

\* the statement issued whenever the key is in the message
LinkStmt_IfPresent(data, key, slabel, sid, dlabel, did, type, props) ==
    IF key \in DOMAIN data
    THEN <<[op |-> "LINK", slabel |-> slabel, sid |-> sid, dlabel |-> dlabel,
            did |-> did, type |-> type, props |-> props]>>
    ELSE <<>>

\* the relationship statement of a handler: issued only for a foreign id that
\* is truthy, each one issued adds one to relationships_created
LinkStmt(data, key, slabel, sid, dlabel, did, type, props) ==
    IF Truthy(data, key)
    THEN <<[op |-> "LINK", slabel |-> slabel, sid |-> sid, dlabel |-> dlabel,
            did |-> did, type |-> type, props |-> props]>>
    ELSE <<>>

Result(id, type, links) ==
    [entity_id |-> id, type |-> type, relationships_created |-> Len(links)]

create_hospital(data) ==
    IF "id" \notin DOMAIN data THEN Raise("KeyError")
    ELSE Return(
        <<MergeStmt("Hospital", data["id"],
            [name |-> Get(data, "name", ""),
             location |-> Get(data, "location", ""),
             hospital_type |-> Get(data, "hospital_type", ""),
             bed_count |-> Get(data, "bed_count", 0),
             trauma_center |-> Get(data, "trauma_center", FALSE),
             teaching_hospital |-> Get(data, "teaching_hospital", FALSE)])>>,
        [entity_id |-> data["id"], type |-> "Hospital", relationships_created |-> 0])

create_doctor(data) ==
    IF "id" \notin DOMAIN data THEN Raise("KeyError")
    ELSE LET links == LinkStmt(data, "hospital_id",
                         "Doctor", data["id"], "Hospital", Get(data, "hospital_id", ""),
                         "WORKS_AT", EmptyDict)
         IN  Return(
                <<MergeStmt("Doctor", data["id"],
                    [name |-> Get(data, "name", ""),
                     specialty |-> Get(data, "specialty", ""),
                     license_number |-> Get(data, "license_number", ""),
                     years_experience |-> Get(data, "years_experience", 0)])>>
                \o links,
                Result(data["id"], "Doctor", links))

\* SET p += $fields with the fields the message holds: a field that is
\* missing is not written
create_patient_Sparse(data) ==
    IF "id" \notin DOMAIN data THEN Raise("KeyError")
    ELSE LET links == LinkStmt(data, "primary_care_doctor",
                         "Patient", data["id"],
                         "Doctor", Get(data, "primary_care_doctor", ""),
                         "HAS_PRIMARY_CARE_DOCTOR", EmptyDict)
             held == DOMAIN data \cap {"name", "mrn", "date_of_birth", "age",
                                       "gender", "phone", "email"}
         IN  Return(
                <<MergeStmt("Patient", data["id"], [k \in held |-> data[k]])>>
                \o links,
                Result(data["id"], "Patient", links))

create_patient(data) ==
    IF "id" \notin DOMAIN data THEN Raise("KeyError")
    ELSE LET links == LinkStmt(data, "primary_care_doctor",
                         "Patient", data["id"],
                         "Doctor", Get(data, "primary_care_doctor", ""),
                         "HAS_PRIMARY_CARE_DOCTOR", EmptyDict)
         IN  Return(
                <<MergeStmt("Patient", data["id"],
                    [name |-> Get(data, "name", ""),
                     mrn |-> Get(data, "mrn", ""),
                     date_of_birth |-> Get(data, "date_of_birth", ""),
                     age |-> Get(data, "age", 0),
                     gender |-> Get(data, "gender", ""),
                     phone |-> Get(data, "phone", ""),
                     email |-> Get(data, "email", "")])>>
                \o links,
                Result(data["id"], "Patient", links))

create_diagnosis(data) ==
    IF "id" \notin DOMAIN data THEN Raise("KeyError")
    ELSE LET links ==
                LinkStmt(data, "patient_id",
                    "Patient", Get(data, "patient_id", ""), "Diagnosis", data["id"],
                    "HAS_DIAGNOSIS", EmptyDict)
                \o LinkStmt(data, "doctor_id",
                    "Doctor", Get(data, "doctor_id", ""), "Diagnosis", data["id"],
                    "DIAGNOSED", EmptyDict)
         IN  Return(
                <<CreateStmt("Diagnosis",
                    [id |-> data["id"],
                     icd10_code |-> Get(data, "icd10_code", ""),
                     description |-> Get(data, "description", ""),
                     severity |-> Get(data, "severity", ""),
                     diagnosed_date |-> Get(data, "diagnosed_date", ""),
                     status |-> Get(data, "status", "")])>>
                \o links,
                Result(data["id"], "Diagnosis", links))

create_medication(data) ==
    IF "id" \notin DOMAIN data THEN Raise("KeyError")
    ELSE LET links ==
                LinkStmt(data, "patient_id",
                    "Patient", Get(data, "patient_id", ""), "Medication", data["id"],
                    "PRESCRIBED",
                    [prescribed_date |-> Get(data, "prescribed_date", "")])
                \o LinkStmt(data, "prescribing_doctor_id",
                    "Doctor", Get(data, "prescribing_doctor_id", ""),
                    "Medication", data["id"],
                    "PRESCRIBED",
                    [date |-> Get(data, "prescribed_date", "")])
         IN  Return(
                <<CreateStmt("Medication",
                    [id |-> data["id"],
                     medication_name |-> Get(data, "medication_name", ""),
                     dosage |-> Get(data, "dosage", ""),
                     frequency |-> Get(data, "frequency", ""),
                     indication |-> Get(data, "indication", ""),
                     prescribed_date |-> Get(data, "prescribed_date", ""),
                     quantity |-> Get(data, "quantity", 0),
                     refills |-> Get(data, "refills", 0),
                     status |-> Get(data, "status", "")])>>
                \o links,
                Result(data["id"], "Medication", links))

create_procedure(data) ==
    IF "id" \notin DOMAIN data THEN Raise("KeyError")
    ELSE LET links ==
                LinkStmt(data, "patient_id",
                    "Patient", Get(data, "patient_id", ""), "Procedure", data["id"],
                    "UNDERWENT",
                    [date |-> Get(data, "procedure_date", ""),
                     cost |-> Get(data, "cost", 0)])
                \o LinkStmt(data, "performing_doctor_id",
                    "Doctor", Get(data, "performing_doctor_id", ""),
                    "Procedure", data["id"],
                    "PERFORMED",
                    [date |-> Get(data, "procedure_date", "")])
                \o LinkStmt(data, "hospital_id",
                    "Procedure", data["id"], "Hospital", Get(data, "hospital_id", ""),
                    "PERFORMED_AT", EmptyDict)
         IN  Return(
                <<CreateStmt("Procedure",
                    [id |-> data["id"],
                     cpt_code |-> Get(data, "cpt_code", ""),
                     procedure_name |-> Get(data, "procedure_name", ""),
                     procedure_type |-> Get(data, "procedure_type", ""),
                     procedure_date |-> Get(data, "procedure_date", ""),
                     duration_minutes |-> Get(data, "duration_minutes", 0),
                     status |-> Get(data, "status", ""),
                     cost |-> Get(data, "cost", 0)])>>
                \o links,
                Result(data["id"], "Procedure", links))

\* str(uuid.uuid4()): a fresh random id, none of the ids a message brings
Uuid4 == "uuid4"

\* every key of the message but 'type' becomes a property of the node
\* and the type, in title case, is put into the text of the statement as the
\* label: the store refuses the statement when that is no identifier
create_generic_entity(data) ==
    LET entity_type == Title(Get(data, "type", "Unknown"))
        properties == [k \in DOMAIN data \ {"type"} |-> data[k]]
    IN  IF ~IsIdentifier(entity_type) THEN Raise("CypherSyntaxError")
        ELSE Return(<<CreateStmt(entity_type, properties)>>,
                    [entity_id |-> Get(data, "id", Uuid4), type |-> entity_type,
                     relationships_created |-> 0])

create_healthcare_entity(data) ==
    LET message_type == Lower(Get(data, "type", "unknown"))
    IN  CASE message_type = "hospital" -> create_hospital(data)
          [] message_type = "doctor" -> create_doctor(data)
          [] message_type = "patient" -> create_patient(data)
          [] message_type = "diagnosis" -> create_diagnosis(data)
          [] message_type = "medication" -> create_medication(data)
          [] message_type = "procedure" -> create_procedure(data)
          [] OTHER -> create_generic_entity(data)

\* relationships_created taken from what the store did: the relationships
\* the transaction added
execute_write_Counted(g, data) ==
    LET plan == create_healthcare_entity(data)
        after == RunAll(g, plan.stmts)
    IN  IF plan.raised
        THEN [graph |-> g, ok |-> FALSE, error |-> plan.error]
        ELSE [graph |-> after, ok |-> TRUE,
              result |-> [plan.result EXCEPT
                  !.relationships_created =
                      Cardinality(DOMAIN after.edges \ DOMAIN g.edges)]]

\* HealthcareNeo4jService.process_healthcare_message with a store that does
\* not fail: session.execute_write runs the handler in one transaction and
\* commits it when the handler returns, rolls back and re-raises when it raises
execute_write(g, data) ==
    LET plan == create_healthcare_entity(data)
    IN  IF plan.raised
        THEN [graph |-> g, ok |-> FALSE, error |-> plan.error]
        ELSE [graph |-> RunAll(g, plan.stmts), ok |-> TRUE, result |-> plan.result]

---------------------------------------------------------------------------
(* The messages fed in.  A message holds a type, an id, the data fields of *)
(* its kind and the foreign ids of its kind, each of them possibly missing.*)

\* the choice "this key is missing from the message"
Absent == "<absent>"

Ids == {"i1", "i2"}

\* the type strings: the six known kinds, one of them also in another case,
\* two kinds the service does not know, one of them of two words, and no
\* type at all
Types == {"hospital", "doctor", "patient", "diagnosis", "medication",
          "procedure", "Doctor", "lab", "lab result", Absent}

Kind(t) == IF t = Absent THEN "unknown" ELSE Lower(t)

\* a full set of data fields for each kind
FieldsA(kind) ==
    CASE kind = "hospital" ->
            [name |-> "General", location |-> "Oakland", hospital_type |-> "HMO",
             bed_count |-> 200, trauma_center |-> TRUE, teaching_hospital |-> TRUE]
      [] kind = "doctor" ->
            [name |-> "Dr A", specialty |-> "Cardiology",
             license_number |-> "L1", years_experience |-> 5]
      [] kind = "patient" ->
            [name |-> "Pat A", mrn |-> "M1", date_of_birth |-> "1980-01-01",
             age |-> 45, gender |-> "F", phone |-> "555-1", email |-> "a@x"]
      [] kind = "diagnosis" ->
            [icd10_code |-> "I10", description |-> "Hypertension",
             severity |-> "mild", diagnosed_date |-> "2024-01-01",
             status |-> "active"]
      [] kind = "medication" ->
            [medication_name |-> "Lisinopril", dosage |-> "10mg",
             frequency |-> "daily", indication |-> "Hypertension",
             prescribed_date |-> "2024-01-01", quantity |-> 30, refills |-> 2,
             status |-> "active"]
      [] kind = "procedure" ->
            [cpt_code |-> "93005", procedure_name |-> "ECG",
             procedure_type |-> "diagnostic", procedure_date |-> "2024-01-01",
             duration_minutes |-> 30, status |-> "completed", cost |-> 150]
      [] OTHER -> [name |-> "Panel", value |-> 7]

\* other values for the same fields
FieldsB(kind) ==
    CASE kind = "hospital" ->
            [name |-> "Stanford", location |-> "Palo Alto",
             hospital_type |-> "Research", bed_count |-> 400,
             trauma_center |-> FALSE, teaching_hospital |-> FALSE]
      [] kind = "doctor" ->
            [name |-> "Dr B", specialty |-> "Neurology",
             license_number |-> "L2", years_experience |-> 9]
      [] kind = "patient" ->
            [name |-> "Pat B", mrn |-> "M2", date_of_birth |-> "1990-02-02",
             age |-> 35, gender |-> "M", phone |-> "555-2", email |-> "b@x"]
      [] kind = "diagnosis" ->
            [icd10_code |-> "E11", description |-> "Diabetes",
             severity |-> "severe", diagnosed_date |-> "2024-02-02",
             status |-> "resolved"]
      [] kind = "medication" ->
            [medication_name |-> "Metformin", dosage |-> "500mg",
             frequency |-> "twice", indication |-> "Diabetes",
             prescribed_date |-> "2024-02-02", quantity |-> 60, refills |-> 1,
             status |-> "stopped"]
      [] kind = "procedure" ->
            [cpt_code |-> "71020", procedure_name |-> "X-ray",
             procedure_type |-> "imaging", procedure_date |-> "2024-02-02",
             duration_minutes |-> 20, status |-> "scheduled", cost |-> 90]
      [] OTHER -> [name |-> "Scan", value |-> 9]

\* a message that leaves fields out holds the first field alone, with a
\* value other than the one of the full message
FirstField(kind) ==
    CASE kind = "diagnosis" -> "icd10_code"
      [] kind = "medication" -> "medication_name"
      [] kind = "procedure" -> "cpt_code"
      [] OTHER -> "name"

\* a message holds every data field, the first one alone, or none
Variants == {"A", "partial", "bare"}

Fields(kind, v) ==
    CASE v = "A" -> FieldsA(kind)
      [] v = "partial" -> FirstField(kind) :> FieldsB(kind)[FirstField(kind)]
      [] v = "bare" -> EmptyDict

\* the foreign-id keys each handler reads
RefKeys(kind) ==
    CASE kind = "hospital" -> {}
      [] kind = "doctor" -> {"hospital_id"}
      [] kind = "patient" -> {"primary_care_doctor"}
      [] kind = "diagnosis" -> {"patient_id", "doctor_id"}
      [] kind = "medication" -> {"patient_id", "prescribing_doctor_id"}
      [] kind = "procedure" -> {"patient_id", "performing_doctor_id", "hospital_id"}
      [] OTHER -> {"patient_id"}

\* a foreign id is missing, empty, or one of the ids
RefValues == Ids \cup {""}

Refs(kind) == UNION {[S -> RefValues] : S \in SUBSET RefKeys(kind)}

Part(key, value) == IF value = Absent THEN EmptyDict ELSE key :> value

Message(t, id, v, refs) ==
    Part("type", t) @@ Part("id", id) @@ Fields(Kind(t), v) @@ refs

---------------------------------------------------------------------------
(* Sequential ingestion: one call of the service at a time, any number of  *)
(* calls.  The messages of the long runs: every known kind with two ids,   *)
(* reference entities re-sent with other field values and with either id   *)
(* as their foreign id, events with each foreign id missing or "i1", and   *)
(* one kind the service does not know.                                     *)

Known == {"hospital", "doctor", "patient", "diagnosis", "medication", "procedure"}

ReferenceKinds == {"hospital", "doctor", "patient"}

EventKinds == {"diagnosis", "medication", "procedure"}

InRun(t, id, v, refs) ==
    /\ t \in Known \cup {"lab"}
    /\ id \in Ids
    /\ v \in {"A", "partial"}
    /\ v = "partial" => (t \in ReferenceKinds \cup {"lab"} /\ id = "i1")
    /\ t = "lab" => (v = "partial" /\ id = "i1" /\ refs = EmptyDict)
    /\ \A k \in DOMAIN refs :
            refs[k] = "i1" \/ (refs[k] = "i2" /\ t \in ReferenceKinds)

Graph == [nodes |-> nodes, edges |-> edges]

EmptyGraph == [nodes |-> <<>>, edges |-> <<>>]

NoCall == [called |-> FALSE]

NoTx == [state |-> "none"]

\* performance_stats as the module creates it
NoStats ==
    [messages_processed |-> 0, messages_failed |-> 0,
     total_processing_time |-> 0, relationships_created |-> 0]

Deliveries == 1..MaxDeliveries

NoTask == [pc |-> "none"]

NoCallback == [pc |-> "none", calls |-> <<>>]

NoWebhook == [pc |-> "none"]

NoDirect == [pc |-> "none"]

NoReader == [pc |-> "none"]

\* HealthcarePublisherMetrics.__init__; batch_times holds the number of times
\* appended, and calls the number of calls of each method that have returned,
\* for the properties
NoMetrics ==
    [locked |-> FALSE, started |-> FALSE, finished |-> FALSE,
     messages_sent |-> 0, messages_failed |-> 0, total_bytes_sent |-> 0,
     batch_times |-> 0,
     calls |-> [record_success |-> 0, record_failure |-> 0,
                record_batch_time |-> 0]]

NoRun == [pc |-> "idle", records |-> <<>>, handed |-> <<>>]

NoMonitor == [pc |-> "none"]

NoReport == [pc |-> "none"]

\* the demo automation has not been started
NoDemo == [pc |-> "none"]

\* nothing is being published and no statistics have been asked for
IdleTools ==
    /\ run = NoRun
    /\ batches = <<>>
    /\ metrics = NoMetrics
    /\ monitor = NoMonitor
    /\ report = NoReport
    /\ ingested = {}
    /\ demo = NoDemo

Init ==
    /\ nodes = <<>>
    /\ edges = <<>>
    /\ last = NoCall
    /\ tx = NoTx
    /\ stats = NoStats
    /\ tasks = [i \in Deliveries |-> NoTask]
    /\ callbacks = [i \in Deliveries |-> NoCallback]
    /\ webhooks = [i \in Deliveries |-> NoWebhook]
    /\ direct = NoDirect
    /\ reader = NoReader
    /\ shutdown = "running"
    /\ IdleTools

\* neo4j_service.process_healthcare_message(data).  last keeps the call for
\* the properties: the message, the outcome, the nodes and relationships the
\* call created and whether it changed a node that was there
Ingest(data) ==
    \E out \in {execute_write(Graph, data)} :
        /\ nodes' = out.graph.nodes
        /\ edges' = out.graph.edges
        /\ last' = [called |-> TRUE, data |-> data, ok |-> out.ok,
                    result |-> IF out.ok THEN out.result ELSE out.error,
                    created |-> DOMAIN out.graph.nodes \ DOMAIN nodes,
                    added |-> DOMAIN out.graph.edges \ DOMAIN edges,
                    updated |-> \E k \in DOMAIN nodes : out.graph.nodes[k] # nodes[k]]
        /\ UNCHANGED <<tx, appVars>>

\* every choice of type, id, data fields and foreign ids
Choices ==
    UNION {{<<t, id, v, refs>> :
                id \in Ids \cup {Absent}, v \in Variants, refs \in Refs(Kind(t))} :
           t \in Types}

MessageOf(c) == Message(c[1], c[2], c[3], c[4])

RunChoices == {c \in Choices : InRun(c[1], c[2], c[3], c[4])}

\* the store is grown to MaxNodes nodes: at that size only the messages that
\* can leave the number of nodes alone are fed in
Next ==
    \E c \in RunChoices :
        /\ Cardinality(DOMAIN nodes) = MaxNodes => Kind(c[1]) \in ReferenceKinds
        /\ Ingest(MessageOf(c))
        /\ Cardinality(DOMAIN nodes') <= MaxNodes

Spec == Init /\ [][Next]_vars

---------------------------------------------------------------------------
(* One call on a store that earlier calls have filled: the handler applied *)
(* once to every message, on every store a subset of the seed messages     *)
(* leaves behind.                                                          *)

SeedMessages ==
    <<Message("hospital", "i1", "A", EmptyDict),
      Message("doctor", "i1", "A", "hospital_id" :> "i1"),
      Message("patient", "i1", "A", "primary_care_doctor" :> "i1"),
      Message("diagnosis", "i1", "A", ("patient_id" :> "i1") @@ ("doctor_id" :> "i1"))>>

\* the store after the seed messages with their index in S, in order
RECURSIVE Seed(_, _, _)
Seed(g, S, i) ==
    IF i > Len(SeedMessages) THEN g
    ELSE Seed(IF i \in S THEN execute_write(g, SeedMessages[i]).graph ELSE g, S, i + 1)

InitCall ==
    /\ \E S \in SUBSET (1..Len(SeedMessages)) :
          /\ nodes = Seed(EmptyGraph, S, 1).nodes
          /\ edges = Seed(EmptyGraph, S, 1).edges
    /\ last = NoCall
    /\ tx = NoTx
    /\ stats = NoStats
    /\ tasks = [i \in Deliveries |-> NoTask]
    /\ callbacks = [i \in Deliveries |-> NoCallback]
    /\ webhooks = [i \in Deliveries |-> NoWebhook]
    /\ direct = NoDirect
    /\ reader = NoReader
    /\ shutdown = "running"
    /\ IdleTools

NextCall ==
    /\ ~last.called
    /\ \E c \in Choices : Ingest(MessageOf(c))

SpecCall == InitCall /\ [][NextCall]_vars

---------------------------------------------------------------------------
(* The write transaction of one call, statement by statement.              *)
(* session.execute_write(handler, data) opens a transaction, runs the      *)
(* handler in it and commits when the handler returns.  A statement or the *)
(* commit can fail (the store is unreachable, a deadlock, a constraint):   *)
(* the driver then rolls the transaction back and either runs the handler  *)
(* again in a new transaction (a transient failure, while it has attempts  *)
(* left) or raises the error to the caller.                                *)

\* session.run(query) in place of tx.run(query): the statement is committed
\* on its own
tx_run_AutoCommit(store, work, q) ==
    [store |-> RunQuery(store, q), work |-> RunQuery(store, q)]

\* tx.run(query, parameters) in the transaction: the write is in the
\* transaction's view of the graph and the committed graph is as it was
tx_run(store, work, q) ==
    [store |-> store, work |-> RunQuery(work, q)]

\* the transaction function starts: the handler builds its first statement,
\* and raises before it runs anything when the message lacks a key it indexes
OpenTx(data, before, attempts) ==
    LET plan == create_healthcare_entity(data)
    IN  IF plan.raised
        THEN [state |-> "failed", data |-> data, before |-> before, ran |-> 0,
              attempts |-> attempts, error |-> plan.error]
        ELSE [state |-> "open", data |-> data, before |-> before, work |-> Graph,
              todo |-> plan.stmts, ran |-> 0, attempts |-> attempts,
              result |-> plan.result]

\* neo4j_service.process_healthcare_message(data) is called
TxBegin(data) ==
    /\ tx.state = "none"
    /\ tx' = OpenTx(data, Graph, 1)
    /\ UNCHANGED <<nodes, edges, last, appVars>>

\* the handler's next tx.run
TxRun ==
    /\ tx.state = "open"
    /\ tx.todo # <<>>
    /\ \E r \in {tx_run(Graph, tx.work, Head(tx.todo))} :
          /\ nodes' = r.store.nodes
          /\ edges' = r.store.edges
          /\ tx' = [tx EXCEPT !.work = r.work, !.todo = Tail(@), !.ran = @ + 1]
    /\ UNCHANGED <<last, appVars>>

\* the transaction is rolled back after a failure: run again by the driver
\* or given up with the error raised to the caller
Rollback(transient) ==
    IF transient /\ tx.attempts < MaxAttempts
    THEN OpenTx(tx.data, tx.before, tx.attempts + 1)
    ELSE [state |-> "failed", data |-> tx.data, before |-> tx.before,
          ran |-> tx.ran, attempts |-> tx.attempts, error |-> "Neo4jError"]

\* the handler's next tx.run raises
TxRunFails ==
    /\ tx.state = "open"
    /\ tx.todo # <<>>
    /\ \E transient \in BOOLEAN : tx' = Rollback(transient)
    /\ UNCHANGED <<nodes, edges, last, appVars>>

\* the handler has returned and the transaction commits
TxCommit ==
    /\ tx.state = "open"
    /\ tx.todo = <<>>
    /\ nodes' = tx.work.nodes
    /\ edges' = tx.work.edges
    /\ tx' = [state |-> "committed", data |-> tx.data, before |-> tx.before,
              ran |-> tx.ran, attempts |-> tx.attempts, result |-> tx.result]
    /\ UNCHANGED <<last, appVars>>

\* the handler has returned and the commit fails
TxCommitFails ==
    /\ tx.state = "open"
    /\ tx.todo = <<>>
    /\ \E transient \in BOOLEAN : tx' = Rollback(transient)
    /\ UNCHANGED <<nodes, edges, last, appVars>>

InitTx == InitCall

NextTx ==
    \/ \E c \in Choices : TxBegin(MessageOf(c))
    \/ TxRun
    \/ TxRunFails
    \/ TxCommit
    \/ TxCommitFails

SpecTx == InitTx /\ [][NextTx]_vars

---------------------------------------------------------------------------
(* The dispatcher and the pull callback.  Each delivered message runs the  *)
(* callback on a subscriber thread; the callback hands the payload to the  *)
(* worker pool and waits for the task.  The pool has more workers than     *)
(* there are deliveries here, so every task runs as soon as it is handed   *)
(* in, and the tasks run concurrently: a step of one can come between any  *)
(* two steps of another.  The write of a task is one transaction, taken as *)
(* one step.                                                               *)

\* a payload: the Python type it comes in, what its text is, and the message
\* it encodes
Payload(form, content, data) == [form |-> form, content |-> content, data |-> data]

\* json.loads of a text; via names the decoding that led to it
JsonLoads(payload, via) ==
    CASE payload.content = "json" ->
            [ok |-> TRUE, data |-> payload.data, via |-> via]
      [] payload.content = "binary" -> [ok |-> FALSE, error |-> "UnicodeDecodeError"]
      [] OTHER -> [ok |-> FALSE, error |-> "JSONDecodeError"]

\* bytes taken down the base64 branch, with no UTF-8 decoding of their own
Decode_BytesAsBase64(payload) ==
    CASE payload.form = "str" -> JsonLoads(payload, "json")
      [] payload.content = "base64" ->
            [ok |-> TRUE, data |-> payload.data, via |-> "base64"]
      [] OTHER -> [ok |-> FALSE, error |-> "JSONDecodeError"]

\* a payload that no decoding parses taken as an empty message
Decode_Lenient(payload) ==
    LET empty == [ok |-> TRUE, data |-> EmptyDict, via |-> "none"]
    IN  CASE payload.form = "str" ->
                IF payload.content = "json" THEN JsonLoads(payload, "json") ELSE empty
          [] payload.form = "bytes" ->
                IF payload.content = "json" THEN JsonLoads(payload, "utf-8") ELSE empty
          [] OTHER -> empty

\* the decoding process_healthcare_message starts with: a str is parsed as
\* JSON; bytes are decoded as UTF-8 and parsed as JSON; anything else is tried
\* as base64 and, that failing, handed to json.loads as it is, which raises
\* TypeError for what is neither text nor bytes
Decode(payload) ==
    CASE payload.form = "str" -> JsonLoads(payload, "json")
      [] payload.form = "bytes" -> JsonLoads(payload, "utf-8")
      [] payload.form = "bytearray" ->
            IF payload.content = "base64"
            THEN [ok |-> TRUE, data |-> payload.data, via |-> "base64"]
            ELSE JsonLoads(payload, "json")
      [] OTHER -> [ok |-> FALSE, error |-> "TypeError"]

\* the states the counters go through while a request reads them are kept
\* with the request, for the properties
Observe(now) ==
    IF reader.pc = "reading" THEN [reader EXCEPT !.seen = @ \cup {now}] ELSE reader

\* the elapsed time a dispatch adds to total_processing_time, in ticks
ProcessingTime == 1

\* the counter updates of a dispatch that succeeded, in the order of the code
SuccessUpdates(result) ==
    <<<<"messages_processed", 1>>,
      <<"total_processing_time", ProcessingTime>>,
      <<"relationships_created", Get(result, "relationships_created", 0)>>>>

\* the failure counted as a processed message as well
FailureUpdates_Processed ==
    <<<<"messages_processed", 1>>, <<"messages_failed", 1>>,
      <<"total_processing_time", ProcessingTime>>>>

\* the counter updates of a dispatch that failed
FailureUpdates ==
    <<<<"messages_failed", 1>>, <<"total_processing_time", ProcessingTime>>>>

\* the messages the subscription delivers, as the publisher encodes them, and
\* a payload that is not JSON
PullPayloads ==
    <<Payload("bytes", "json", Message("hospital", "i1", "A", EmptyDict)),
      Payload("bytes", "json", Message("doctor", "i1", "A", "hospital_id" :> "i1")),
      Payload("bytes", "text", EmptyDict)>>

\* callback(message): the subscriber delivers a message and the callback
\* hands its data to the worker pool.  The deliveries are numbered in the
\* order the callback is called for them.
Callback(i, payload) ==
    /\ shutdown \in {"running", "closed"}
    /\ callbacks[i].pc = "none"
    /\ \A j \in 1..(i - 1) : callbacks[j].pc # "none"
    /\ callbacks' = [callbacks EXCEPT ![i].pc = "waiting"]
    /\ tasks' = [tasks EXCEPT ![i] = [pc |-> "queued", payload |-> payload]]
    /\ UNCHANGED <<nodes, edges, last, tx, stats, sideVars>>

\* a worker starts process_healthcare_message(message_data): the decoding.
\* txs counts the write transactions the dispatch has started, for the
\* properties
TaskDecode(i) ==
    /\ tasks[i].pc = "queued"
    /\ \E d \in {Decode(tasks[i].payload)} :
          tasks' = [tasks EXCEPT ![i] =
              IF d.ok
              THEN [pc |-> "decoded", payload |-> @.payload, data |-> d.data,
                    via |-> d.via, txs |-> 0]
              ELSE [pc |-> "stats", payload |-> @.payload, ok |-> FALSE,
                    out |-> d.error, updates |-> FailureUpdates, loaded |-> FALSE,
                    txs |-> 0]]
    /\ UNCHANGED <<nodes, edges, last, tx, stats, callbacks, sideVars>>

\* neo4j_service.process_healthcare_message(data) in the task: the write
\* commits and gives its result, or the handler raises
TaskWrite(i) ==
    /\ tasks[i].pc = "decoded"
    /\ \E out \in {execute_write(Graph, tasks[i].data)} :
          /\ nodes' = out.graph.nodes
          /\ edges' = out.graph.edges
          /\ tasks' = [tasks EXCEPT ![i] =
                IF out.ok
                THEN [pc |-> "stats", payload |-> @.payload, ok |-> TRUE,
                      out |-> out.result, updates |-> SuccessUpdates(out.result),
                      loaded |-> FALSE, txs |-> 1]
                ELSE [pc |-> "stats", payload |-> @.payload, ok |-> FALSE,
                      out |-> out.error, updates |-> FailureUpdates,
                      loaded |-> FALSE, txs |-> 1]]
    /\ UNCHANGED <<last, tx, stats, callbacks, sideVars>>

\* the write of the task fails in the store: nothing is committed
TaskWriteFails(i) ==
    /\ tasks[i].pc = "decoded"
    /\ tasks' = [tasks EXCEPT ![i] =
          [pc |-> "stats", payload |-> @.payload, ok |-> FALSE,
           out |-> "Neo4jError", updates |-> FailureUpdates, loaded |-> FALSE,
           txs |-> 1]]
    /\ UNCHANGED <<nodes, edges, last, tx, stats, callbacks, sideVars>>

\* performance_stats[key] += amount, first half: the task reads the counter
StatLoad(i) ==
    /\ tasks[i].pc = "stats"
    /\ ~tasks[i].loaded
    /\ tasks[i].updates # <<>>
    /\ tasks' = [tasks EXCEPT ![i] =
          [pc |-> "stats", payload |-> @.payload, ok |-> @.ok, out |-> @.out,
           updates |-> @.updates, loaded |-> TRUE,
           value |-> stats[Head(@.updates)[1]], txs |-> @.txs]]
    /\ UNCHANGED <<nodes, edges, last, tx, stats, callbacks, sideVars>>

\* performance_stats[key] += amount, second half: the task stores the value
\* it read plus the amount
StatStore(i) ==
    /\ tasks[i].pc = "stats"
    /\ tasks[i].loaded
    /\ stats' = [stats EXCEPT ![Head(tasks[i].updates)[1]] =
                    tasks[i].value + Head(tasks[i].updates)[2]]
    /\ tasks' = [tasks EXCEPT ![i] =
          [pc |-> "stats", payload |-> @.payload, ok |-> @.ok, out |-> @.out,
           updates |-> Tail(@.updates), loaded |-> FALSE,
           txs |-> @.txs]]
    /\ reader' = Observe(stats')
    /\ UNCHANGED <<nodes, edges, last, tx, callbacks, toolVars, webhooks, direct, shutdown>>

\* process_healthcare_message returns its result or re-raises the error
TaskEnd(i) ==
    /\ tasks[i].pc = "stats"
    /\ tasks[i].updates = <<>>
    /\ tasks' = [tasks EXCEPT ![i] =
          [pc |-> IF @.ok THEN "returned" ELSE "raised", payload |-> @.payload,
           ok |-> @.ok, out |-> @.out, txs |-> @.txs]]
    /\ UNCHANGED <<nodes, edges, last, tx, stats, callbacks, sideVars>>

TaskDone(i) == tasks[i].pc \in {"returned", "raised"}

\* what future.result(timeout=30) gives the callback
FutureResult(i, timedOut) ==
    CASE timedOut -> "TimeoutError"
      [] tasks[i].pc = "returned" -> "result"
      [] OTHER -> "exception"

\* message.ack() before the wait for the task
Settle_AckFirst(outcome) ==
    IF outcome = "result" THEN <<"ack">> ELSE <<"ack", "nack">>

\* the calls the callback makes on the message: ack() after a result, nack()
\* in the except clause
Settle(outcome) ==
    IF outcome = "result" THEN <<"ack">> ELSE <<"nack">>

\* future.result returns or re-raises what the task ended with
CallbackResult(i) ==
    /\ callbacks[i].pc = "waiting"
    /\ TaskDone(i)
    /\ callbacks' = [callbacks EXCEPT ![i] =
          [pc |-> "returned", outcome |-> FutureResult(i, FALSE),
           calls |-> Settle(FutureResult(i, FALSE))]]
    /\ UNCHANGED <<nodes, edges, last, tx, stats, tasks, sideVars>>

\* the task has not ended after 30 seconds: future.result raises
\* TimeoutError and the task goes on in the pool
CallbackTimeout(i) ==
    /\ callbacks[i].pc = "waiting"
    /\ ~TaskDone(i)
    /\ callbacks' = [callbacks EXCEPT ![i] =
          [pc |-> "returned", outcome |-> FutureResult(i, TRUE),
           calls |-> Settle(FutureResult(i, TRUE))]]
    /\ UNCHANGED <<nodes, edges, last, tx, stats, tasks, sideVars>>

InitPull == Init

NextPull ==
    \E i \in Deliveries :
        \/ \E k \in 1..Len(PullPayloads) : Callback(i, PullPayloads[k])
        \/ TaskDecode(i)
        \/ TaskWrite(i)
        \/ TaskWriteFails(i)
        \/ StatLoad(i)
        \/ StatStore(i)
        \/ TaskEnd(i)
        \/ CallbackResult(i)
        \/ CallbackTimeout(i)

SpecPull == InitPull /\ [][NextPull]_vars

\* the dispatch tasks that are queued or running
InFlight == {i \in Deliveries : tasks[i].pc \in {"queued", "decoded", "stats"}}

\* the pull subscriber handing in one message at a time: a message is
\* delivered when the dispatch of the one before has ended
NextSerial == NextPull /\ Cardinality(InFlight') <= 1

SpecSerial == InitPull /\ [][NextSerial]_vars

---------------------------------------------------------------------------
(* The push webhook.  Pub/Sub posts a JSON envelope whose message.data is  *)
(* the published bytes in base64, a JSON string; the webhook hands that    *)
(* string to the worker pool and waits for the task as the pull callback   *)
(* does.                                                                   *)

PushedMessage == Message("doctor", "i1", "A", "hospital_id" :> "i1")

\* the bodies posted to /webhook: an empty object; a push envelope as Pub/Sub
\* sends it; an envelope whose message.data is the JSON text itself; an
\* envelope whose message has no data; an envelope whose message.data is the
\* message as a JSON object, which request.get_json() gives as a dict
PushEnvelopes ==
    <<EmptyDict,
      "message" :> ("data" :> Payload("str", "base64", PushedMessage)),
      "message" :> ("data" :> Payload("str", "json", PushedMessage)),
      "message" :> EmptyDict,
      "message" :> ("data" :> Payload("dict", "object", PushedMessage))>>

\* message.get('data', ''): the data of the envelope, the empty string when
\* there is none
EnvelopeData(envelope) ==
    Get(Get(envelope, "message", EmptyDict), "data", Payload("str", "text", EmptyDict))

\* POST /webhook arrives: an empty envelope is answered 400 at once, any
\* other has its data handed to the worker pool
Webhook(i, envelope) ==
    /\ shutdown \in {"running", "closed"}
    /\ webhooks[i].pc = "none"
    /\ tasks[i].pc = "none"
    /\ \A j \in 1..(i - 1) : webhooks[j].pc # "none"
    /\ IF envelope = EmptyDict
       THEN /\ webhooks' = [webhooks EXCEPT ![i] = [pc |-> "responded", status |-> 400]]
            /\ UNCHANGED tasks
       ELSE /\ webhooks' = [webhooks EXCEPT ![i] = [pc |-> "waiting"]]
            /\ tasks' = [tasks EXCEPT ![i] =
                  [pc |-> "queued", payload |-> EnvelopeData(envelope)]]
    /\ UNCHANGED <<nodes, edges, last, tx, stats, callbacks, toolVars, direct, reader, shutdown>>

\* the answer of the webhook: the result with 200, the error with 500
WebhookStatus(outcome) == IF outcome = "result" THEN 200 ELSE 500

\* future.result returns or re-raises what the task ended with
WebhookResult(i) ==
    /\ webhooks[i].pc = "waiting"
    /\ TaskDone(i)
    /\ webhooks' = [webhooks EXCEPT ![i] =
          [pc |-> "responded", outcome |-> FutureResult(i, FALSE),
           status |-> WebhookStatus(FutureResult(i, FALSE))]]
    /\ UNCHANGED <<nodes, edges, last, tx, stats, tasks, callbacks, toolVars, direct, reader,
                   shutdown>>

\* the task has not ended after 30 seconds: future.result raises
\* TimeoutError and the task goes on in the pool
WebhookTimeout(i) ==
    /\ webhooks[i].pc = "waiting"
    /\ ~TaskDone(i)
    /\ webhooks' = [webhooks EXCEPT ![i] =
          [pc |-> "responded", outcome |-> FutureResult(i, TRUE),
           status |-> WebhookStatus(FutureResult(i, TRUE))]]
    /\ UNCHANGED <<nodes, edges, last, tx, stats, tasks, callbacks, toolVars, direct, reader,
                   shutdown>>

NextPush ==
    \E i \in Deliveries :
        \/ \E k \in 1..Len(PushEnvelopes) : Webhook(i, PushEnvelopes[k])
        \/ TaskDecode(i)
        \/ TaskWrite(i)
        \/ TaskWriteFails(i)
        \/ StatLoad(i)
        \/ StatStore(i)
        \/ TaskEnd(i)
        \/ WebhookResult(i)
        \/ WebhookTimeout(i)

SpecPush == InitPull /\ [][NextPush]_vars

---------------------------------------------------------------------------
(* Shutdown.  graceful_shutdown is the handler of SIGTERM and SIGINT: it   *)
(* closes the store connection, then shuts the worker pool down, waiting   *)
(* for its tasks, then exits.  The subscriber threads and the pool threads *)
(* go on while the handler runs.  A write attempted on the closed          *)
(* connection is refused or served by a connection the driver opens anew,  *)
(* depending on the driver: both are steps a task can take.                *)

\* neo4j_service.close()
ShutdownClose ==
    /\ shutdown = "running"
    /\ shutdown' = "closed"
    /\ UNCHANGED <<nodes, edges, last, tx, stats, tasks, callbacks, toolVars, webhooks,
                   direct, reader>>

\* executor.shutdown(wait=True) is called: the pool takes no new task
ShutdownPool ==
    /\ shutdown = "closed"
    /\ shutdown' = "draining"
    /\ UNCHANGED <<nodes, edges, last, tx, stats, tasks, callbacks, toolVars, webhooks,
                   direct, reader>>

\* the tasks of the pool have ended: executor.shutdown returns and
\* sys.exit(0) ends the process
ShutdownExit ==
    /\ shutdown = "draining"
    /\ InFlight = {}
    /\ shutdown' = "exited"
    /\ UNCHANGED <<nodes, edges, last, tx, stats, tasks, callbacks, toolVars, webhooks,
                   direct, reader>>

\* callback(message) while the pool shuts down: executor.submit raises
\* RuntimeError and the except clause calls nack
CallbackRefused(i) ==
    /\ shutdown = "draining"
    /\ callbacks[i].pc = "none"
    /\ \A j \in 1..(i - 1) : callbacks[j].pc # "none"
    /\ callbacks' = [callbacks EXCEPT ![i] =
          [pc |-> "returned", outcome |-> "RuntimeError",
           calls |-> Settle("RuntimeError")]]
    /\ UNCHANGED <<nodes, edges, last, tx, stats, tasks, sideVars>>

NextShutdown ==
    \/ ShutdownClose
    \/ ShutdownPool
    \/ ShutdownExit
    \/ \E i \in Deliveries : CallbackRefused(i)

\* the pull subscriber at work when the process is told to stop
SpecStop == InitPull /\ [][NextPull \/ NextShutdown]_vars

---------------------------------------------------------------------------
(* The direct processing endpoint.  The web server handles each request on *)
(* a thread of its own, so a request runs alongside the tasks of the pool. *)
(* process_direct writes the posted message itself, without the pool and   *)
(* without the dispatcher, and updates the same counters.                  *)

\* the counter updates of a direct request that succeeded
DirectSuccessUpdates(result) ==
    <<<<"messages_processed", 1>>,
      <<"relationships_created", Get(result, "relationships_created", 0)>>>>

\* the counter update of a direct request that failed
DirectFailureUpdates == <<<<"messages_failed", 1>>>>

\* the JSON bodies posted to /process: a message, and an empty object
DirectBodies ==
    <<Message("doctor", "i2", "A", "hospital_id" :> "i1"), EmptyDict>>

\* POST /process arrives: a body that is empty is answered 400 at once
DirectRequest(data) ==
    /\ direct.pc = "none"
    /\ direct' = IF data = EmptyDict
                 THEN [pc |-> "responded", data |-> data, status |-> 400]
                 ELSE [pc |-> "received", data |-> data]
    /\ UNCHANGED <<nodes, edges, last, tx, stats, tasks, callbacks, toolVars, webhooks,
                   reader, shutdown>>

\* neo4j_service.process_healthcare_message(data) in the request: the write
\* commits and gives its result, or the handler raises
DirectWrite ==
    /\ direct.pc = "received"
    /\ \E out \in {execute_write(Graph, direct.data)} :
          /\ nodes' = out.graph.nodes
          /\ edges' = out.graph.edges
          /\ direct' =
                IF out.ok
                THEN [pc |-> "stats", data |-> direct.data, ok |-> TRUE,
                      out |-> out.result,
                      updates |-> DirectSuccessUpdates(out.result), loaded |-> FALSE]
                ELSE [pc |-> "stats", data |-> direct.data, ok |-> FALSE,
                      out |-> out.error,
                      updates |-> DirectFailureUpdates, loaded |-> FALSE]
    /\ UNCHANGED <<last, tx, stats, tasks, callbacks, toolVars, webhooks, reader, shutdown>>

\* the write of the request fails in the store
DirectWriteFails ==
    /\ direct.pc = "received"
    /\ direct' = [pc |-> "stats", data |-> direct.data, ok |-> FALSE,
                  out |-> "Neo4jError", updates |-> DirectFailureUpdates,
                  loaded |-> FALSE]
    /\ UNCHANGED <<nodes, edges, last, tx, stats, tasks, callbacks, toolVars, webhooks,
                   reader, shutdown>>

\* performance_stats[key] += amount in the request, first half
DirectLoad ==
    /\ direct.pc = "stats"
    /\ ~direct.loaded
    /\ direct.updates # <<>>
    /\ direct' = [pc |-> "stats", data |-> direct.data, ok |-> direct.ok,
                  out |-> direct.out, updates |-> direct.updates, loaded |-> TRUE,
                  value |-> stats[Head(direct.updates)[1]]]
    /\ UNCHANGED <<nodes, edges, last, tx, stats, tasks, callbacks, toolVars, webhooks,
                   reader, shutdown>>

\* performance_stats[key] += amount in the request, second half
DirectStore ==
    /\ direct.pc = "stats"
    /\ direct.loaded
    /\ stats' = [stats EXCEPT ![Head(direct.updates)[1]] =
                    direct.value + Head(direct.updates)[2]]
    /\ direct' = [pc |-> "stats", data |-> direct.data, ok |-> direct.ok,
                  out |-> direct.out, updates |-> Tail(direct.updates),
                  loaded |-> FALSE]
    /\ reader' = Observe(stats')
    /\ UNCHANGED <<nodes, edges, last, tx, tasks, callbacks, toolVars, webhooks, shutdown>>

\* the request is answered: 200 with the result, 500 with the error
DirectRespond ==
    /\ direct.pc = "stats"
    /\ direct.updates = <<>>
    /\ direct' = [pc |-> "responded", data |-> direct.data, ok |-> direct.ok,
                  out |-> direct.out,
                  status |-> IF direct.ok THEN 200 ELSE 500]
    /\ UNCHANGED <<nodes, edges, last, tx, stats, tasks, callbacks, toolVars, webhooks,
                   reader, shutdown>>

NextDirect ==
    \/ \E k \in 1..Len(DirectBodies) : DirectRequest(DirectBodies[k])
    \/ DirectWrite
    \/ DirectWriteFails
    \/ DirectLoad
    \/ DirectStore
    \/ DirectRespond

\* the pull subscriber and the direct endpoint at work together
SpecDirect == InitPull /\ [][NextPull \/ NextDirect]_vars

---------------------------------------------------------------------------
(* The endpoints that report the counters.  health_check reads the entries *)
(* of performance_stats one by one, where it needs them, on the thread of  *)
(* the request; get_statistics and the real-time getters do the same.      *)

\* the entries health_check reads, in the order it reads them
HealthReads ==
    <<"total_processing_time", "messages_processed", "messages_processed",
      "messages_processed", "messages_failed", "relationships_created",
      "messages_processed", "messages_processed", "messages_failed">>

\* GET /health arrives: neo4j_service.test_connection() raises and the
\* request is answered 503, or it returns and the reads begin
ReadRequest ==
    /\ reader.pc = "none"
    /\ \E healthy \in BOOLEAN :
          reader' = IF healthy
                    THEN [pc |-> "reading", todo |-> HealthReads, got |-> <<>>,
                          seen |-> {stats}]
                    ELSE [pc |-> "responded", status |-> 503]
    /\ UNCHANGED <<nodes, edges, last, tx, stats, tasks, callbacks, toolVars, webhooks,
                   direct, shutdown>>

\* performance_stats[key] is read
ReadCounter ==
    /\ reader.pc = "reading"
    /\ reader.todo # <<>>
    /\ reader' = [reader EXCEPT
          !.got = Append(@, <<Head(reader.todo), stats[Head(reader.todo)]>>),
          !.todo = Tail(@)]
    /\ UNCHANGED <<nodes, edges, last, tx, stats, tasks, callbacks, toolVars, webhooks,
                   direct, shutdown>>

\* the request is answered 200 with what it read
ReadRespond ==
    /\ reader.pc = "reading"
    /\ reader.todo = <<>>
    /\ reader' = [pc |-> "responded", status |-> 200, got |-> reader.got,
                  seen |-> reader.seen]
    /\ UNCHANGED <<nodes, edges, last, tx, stats, tasks, callbacks, toolVars, webhooks,
                   direct, shutdown>>

NextReader ==
    \/ ReadRequest
    \/ ReadCounter
    \/ ReadRespond

\* the pull subscriber at work and a request that reads the counters
SpecRead == InitPull /\ [][NextPull \/ NextReader]_vars

---------------------------------------------------------------------------
(* The publisher.  publish_healthcare_data_high_performance splits the     *)
(* records into batches and has publish_message_batch publish each batch   *)
(* on a pool of workers; the workers tally every record in the metrics,    *)
(* whose methods take the lock of the metrics.  The batches are numbered   *)
(* from 1 in the order they are handed to the pool.                        *)

\* range(0, n, step)
Range(n, step) == {i \in 0..(n - 1) : i % step = 0}

\* s[i:j], counted from 0: the slice ends where the sequence does
Slice(s, i, j) == SubSeq(s, i + 1, IF j < Len(s) THEN j ELSE Len(s))

\* the batches without the records left over after the last full one
Batches_FullOnly(records, batch_size) ==
    [k \in 1..(Len(records) \div batch_size) |->
        Slice(records, (k - 1) * batch_size, (k - 1) * batch_size + batch_size)]

\* [healthcare_data[i:i + batch_size]
\*  for i in range(0, len(healthcare_data), batch_size)]
Batches(records, batch_size) ==
    [k \in 1..Cardinality(Range(Len(records), batch_size)) |->
        Slice(records, (k - 1) * batch_size, (k - 1) * batch_size + batch_size)]

\* what becomes of a record: its publish future gives a message id; the
\* future raises or is not done after 10 seconds; json.dumps or
\* publisher.publish raises while the record is being submitted
Fates == {"ok", "failed", "raise"}

\* len(data) of a record, the records told apart by their size
SizeOf(r) == r

\* the nearest integer to num / den, the even one of two that are as near:
\* round() of Python
RoundHalfEven_Down(num, den) == num \div den

RoundHalfEven(num, den) ==
    LET q == num \div den
        r == num % den
    IN  CASE 2 * r < den -> q
          [] 2 * r > den -> q + 1
          [] OTHER -> IF q % 2 = 0 THEN q ELSE q + 1

Max(a, b) == IF a >= b THEN a ELSE b

\* get_stats from the line that sets total_messages on: total_messages is
\* the sum taken there and the other entries are read from the metrics.
\* success_rate_percent is in hundredths of a percent, the two decimals
\* round(..., 2) keeps; the entries that hold durations are left out.
get_stats(m, total_messages) ==
    IF ~m.started THEN EmptyDict
    ELSE [total_messages |-> total_messages,
          messages_sent |-> m.messages_sent,
          messages_failed |-> m.messages_failed,
          success_rate_percent |->
              RoundHalfEven(10000 * m.messages_sent, Max(total_messages, 1)),
          total_bytes_sent |-> m.total_bytes_sent]

\* the variables of the service, which the publisher leaves alone
serviceVars ==
    <<nodes, edges, last, tx, stats, tasks, callbacks, webhooks, direct, reader,
      shutdown>>

\* the batches are formed, metrics.start_publishing() is called and every
\* batch is submitted to the executor
StartRun ==
    /\ run.pc = "ready"
    /\ batches' = [b \in DOMAIN Batches(run.records, run.batch_size) |->
                      [pc |-> "queued",
                       messages |-> Batches(run.records, run.batch_size)[b]]]
    /\ metrics' = [metrics EXCEPT !.started = TRUE]
    /\ run' = [run EXCEPT !.pc = "publishing"]
    /\ UNCHANGED <<serviceVars, ingested, demo, monitor, report>>

\* the batches a worker is publishing
Running == {b \in DOMAIN batches : batches[b].pc \in {"await", "except", "time"}}

\* a pool that starts a thread for every task handed in
FreeWorker_Unbounded == TRUE

\* ThreadPoolExecutor(max_workers=max_workers): a task leaves the queue when
\* fewer than max_workers tasks are being run
FreeWorker == Cardinality(Running) < run.max_workers

\* a worker takes the batch at the head of the queue and submits its
\* messages in order: when json.dumps or publisher.publish raises for one,
\* the messages before it have been handed to the transport, the others are
\* not, and the batch goes to its except clause; otherwise it goes on to
\* wait for the futures.  handed counts the publish calls made for a record.
BatchStart(b) ==
    /\ batches[b].pc = "queued"
    /\ \A c \in 1..(b - 1) : batches[c].pc # "queued"
    /\ FreeWorker
    /\ LET msgs == batches[b].messages
           bad == {k \in 1..Len(msgs) : run.fate[msgs[k]] = "raise"}
           stop == IF bad = {} THEN Len(msgs) + 1
                   ELSE CHOOSE k \in bad : \A j \in bad : k <= j
           published == {msgs[k] : k \in 1..(stop - 1)}
       IN  /\ run' = [run EXCEPT !.handed =
                        [r \in DOMAIN @ |-> IF r \in published THEN @[r] + 1 ELSE @[r]]]
           /\ batches' = [batches EXCEPT ![b] =
                 [pc |-> IF bad = {} THEN "await" ELSE "except", messages |-> msgs,
                  idx |-> 1, held |-> FALSE, loaded |-> NoMetrics,
                  batch_success |-> 0, batch_failed |-> 0, tallied |-> <<>>,
                  result |-> <<>>]]
    /\ UNCHANGED <<serviceVars, ingested, demo, metrics, monitor, report>>

\* the method of the metrics a batch calls next: record_success or
\* record_failure after future.result(timeout=10) of the message it waits
\* for, record_failure in the except clause of the submission,
\* record_batch_time when every future has been waited for
Call(bt) ==
    CASE bt.pc = "await" ->
            IF run.fate[bt.messages[bt.idx]] = "ok"
            THEN "record_success" ELSE "record_failure"
      [] bt.pc = "except" -> "record_failure"
      [] OTHER -> "record_batch_time"

\* metrics whose methods take no lock
LockFree_NoLock == TRUE

\* with self.lock: the lock is taken when no thread holds it
LockFree == ~metrics.locked

\* a batch enters the method of the metrics it calls: it takes the lock and
\* reads the fields the method updates
MetricsEnter(b) ==
    /\ b \in Running
    /\ ~batches[b].held
    /\ LockFree
    /\ metrics' = [metrics EXCEPT !.locked = TRUE]
    /\ batches' = [batches EXCEPT ![b].held = TRUE, ![b].loaded = metrics]
    /\ UNCHANGED <<serviceVars, ingested, demo, run, monitor, report>>

\* a batch that stops waiting at the first future that fails
NextIndex_Atomic(bt, call) ==
    IF call = "record_failure" THEN Len(bt.messages) + 1 ELSE bt.idx + 1

\* for future, message_size in futures: the next future is waited for
\* whatever the one before gave
NextIndex(bt, call) == bt.idx + 1

\* the batch after the method of the metrics has returned: the tally of the
\* batch and the next future, or the return of publish_message_batch.
\* tallied keeps what was recorded for each message, for the properties.
AfterCall(bt, call) ==
    CASE bt.pc = "await" ->
            [bt EXCEPT
                !.held = FALSE,
                !.idx = NextIndex(bt, call),
                !.batch_success = IF call = "record_success" THEN @ + 1 ELSE @,
                !.batch_failed = IF call = "record_failure" THEN @ + 1 ELSE @,
                !.tallied = Append(@, call),
                !.pc = IF NextIndex(bt, call) > Len(bt.messages)
                       THEN "time" ELSE "await"]
      [] bt.pc = "except" ->
            [bt EXCEPT !.held = FALSE, !.pc = "done",
                       !.result = <<0, Len(bt.messages)>>]
      [] OTHER ->
            [bt EXCEPT !.held = FALSE, !.pc = "done",
                       !.result = <<bt.batch_success, bt.batch_failed>>]

\* the method stores what it read plus its amount and releases the lock
MetricsExit(b) ==
    /\ b \in Running
    /\ batches[b].held
    /\ LET bt == batches[b]
           m == bt.loaded
           call == Call(bt)
       IN  /\ metrics' = [metrics EXCEPT
                 !.locked = FALSE,
                 !.messages_sent =
                     IF call = "record_success" THEN m.messages_sent + 1 ELSE @,
                 !.total_bytes_sent =
                     IF call = "record_success"
                     THEN m.total_bytes_sent + SizeOf(bt.messages[bt.idx]) ELSE @,
                 !.messages_failed =
                     IF call = "record_failure" THEN m.messages_failed + 1 ELSE @,
                 !.batch_times =
                     IF call = "record_batch_time" THEN m.batch_times + 1 ELSE @,
                 !.calls[call] = @ + 1]
           /\ batches' = [batches EXCEPT ![b] = AfterCall(bt, call)]
    /\ UNCHANGED <<serviceVars, ingested, demo, run, monitor, report>>

\* metrics.get_stats() called while batches are being published, as the main
\* thread does for its progress line: the lock is taken and total_messages
\* is set
MonitorEnter ==
    /\ run.pc = "publishing"
    /\ monitor.pc = "none"
    /\ LockFree
    /\ metrics' = [metrics EXCEPT !.locked = TRUE]
    /\ monitor' = [pc |-> "reading",
                   total_messages |-> metrics.messages_sent + metrics.messages_failed]
    /\ UNCHANGED <<serviceVars, ingested, demo, run, batches, report>>

\* get_stats builds the dict it returns and releases the lock
MonitorExit ==
    /\ monitor.pc = "reading"
    /\ monitor' = [pc |-> "done", stats |-> get_stats(metrics, monitor.total_messages)]
    /\ metrics' = [metrics EXCEPT !.locked = FALSE]
    /\ UNCHANGED <<serviceVars, ingested, demo, run, batches, report>>

\* the sum of the counts the batches returned, success with k = 1 and
\* failure with k = 2
RECURSIVE SumResults(_, _)
SumResults(n, k) ==
    IF n = 0 THEN 0 ELSE SumResults(n - 1, k) + batches[n].result[k]

\* every batch has returned: the loop over as_completed has added the counts
\* of each to the totals of the run, which no other thread reads, the
\* executor is left, metrics.finish_publishing() is called and get_stats()
\* gives the final statistics, which the run returns
FinishRun ==
    /\ run.pc = "publishing"
    /\ \A b \in DOMAIN batches : batches[b].pc = "done"
    /\ LockFree
    /\ metrics' = [metrics EXCEPT !.finished = TRUE]
    /\ run' = [run EXCEPT
          !.pc = "finished",
          !.total_success = SumResults(Len(batches), 1),
          !.total_failed = SumResults(Len(batches), 2),
          !.completed_batches = Len(batches),
          !.final = get_stats(metrics,
                              metrics.messages_sent + metrics.messages_failed)]
    /\ UNCHANGED <<serviceVars, ingested, demo, batches, monitor, report>>

\* a run over up to MaxRecords records, the records numbered from 1, with
\* every batch size and every number of workers up to the bounds and every
\* fate of every record
InitPublish ==
    /\ nodes = <<>>
    /\ edges = <<>>
    /\ last = NoCall
    /\ tx = NoTx
    /\ stats = NoStats
    /\ tasks = [i \in Deliveries |-> NoTask]
    /\ callbacks = [i \in Deliveries |-> NoCallback]
    /\ webhooks = [i \in Deliveries |-> NoWebhook]
    /\ direct = NoDirect
    /\ reader = NoReader
    /\ shutdown = "running"
    /\ \E n \in 0..MaxRecords, batch_size \in 1..MaxBatchSize,
          max_workers \in 1..MaxWorkers :
          \E fate \in [1..n -> Fates] :
              run = [pc |-> "ready", records |-> [r \in 1..n |-> r],
                     batch_size |-> batch_size, max_workers |-> max_workers,
                     fate |-> fate, handed |-> [r \in 1..n |-> 0],
                     total_success |-> 0, total_failed |-> 0,
                     completed_batches |-> 0, final |-> EmptyDict]
    /\ batches = <<>>
    /\ metrics = NoMetrics
    /\ monitor = NoMonitor
    /\ report = NoReport
    /\ ingested = {}
    /\ demo = NoDemo

NextPublish ==
    \/ StartRun
    \/ \E b \in DOMAIN batches :
          \/ BatchStart(b)
          \/ MetricsEnter(b)
          \/ MetricsExit(b)
    \/ MonitorEnter
    \/ MonitorExit
    \/ FinishRun

SpecPublish == InitPublish /\ [][NextPublish]_vars

---------------------------------------------------------------------------
(* The statistics of the graph: get_healthcare_statistics counts the nodes *)
(* by label and the relationships by type, each list ordered by count, and *)
(* sums the counts.  The store is not written while the call runs.         *)

\* CALL db.labels() YIELD label, then count(n) of MATCH (n:label) through
\* apoc.cypher.run: for each label in use the number of nodes that bear it,
\* a node of several labels counted under each
NodeCounts(g) ==
    [l \in UNION {LabelSet(g.nodes[k].label) : k \in DOMAIN g.nodes} |->
        Cardinality({k \in DOMAIN g.nodes : l \in LabelSet(g.nodes[k].label)})]

\* MATCH (n) RETURN labels(n)[0], count(*): each node under its first label
NodeCounts_FirstLabel(g) ==
    [l \in {Labels(g.nodes[k].label)[1] : k \in DOMAIN g.nodes} |->
        Cardinality({k \in DOMAIN g.nodes : Labels(g.nodes[k].label)[1] = l})]

\* MATCH ()-[r]->() RETURN type(r), count(r)
RelCounts(g) ==
    [t \in {k[1] : k \in DOMAIN g.edges} |->
        Cardinality({k \in DOMAIN g.edges : k[1] = t})]

\* the orders a set of groups can be listed in
Orders(S) ==
    {f \in [1..Cardinality(S) -> S] : \A i, j \in DOMAIN f : i # j => f[i] # f[j]}

\* ORDER BY count DESC: the groups from the largest count to the smallest,
\* groups of the same count in any order
OrderByCountDesc(count) ==
    {f \in Orders(DOMAIN count) :
        \A i \in 1..(Len(f) - 1) : count[f[i]] >= count[f[i + 1]]}

\* sum(stat['count'] for stat in stats)
RECURSIVE SumCounts(_)
SumCounts(stats_list) ==
    IF stats_list = <<>> THEN 0
    ELSE Head(stats_list).count + SumCounts(Tail(stats_list))

\* the node counts of the query with apoc.cypher.run, or, when the store
\* has no such procedure and the query raises, of the query that replaces it
NodeStrategy(g, apoc) == IF apoc THEN NodeCounts(g) ELSE NodeCounts_FirstLabel(g)

\* get_healthcare_statistics(); report.apoc keeps which of the two node
\* queries gave the counts
GetStatistics ==
    /\ report.pc = "none"
    /\ \E apoc \in BOOLEAN :
       \E by_label \in OrderByCountDesc(NodeStrategy(Graph, apoc)),
          by_type \in OrderByCountDesc(RelCounts(Graph)) :
          LET node_stats == [i \in DOMAIN by_label |->
                                [entity_type |-> by_label[i],
                                 count |-> NodeStrategy(Graph, apoc)[by_label[i]]]]
              rel_stats == [i \in DOMAIN by_type |->
                               [relationship_type |-> by_type[i],
                                count |-> RelCounts(Graph)[by_type[i]]]]
          IN  report' = [pc |-> "done",
                         apoc |-> apoc,
                         total_nodes |-> SumCounts(node_stats),
                         total_relationships |-> SumCounts(rel_stats),
                         node_statistics |-> node_stats,
                         relationship_statistics |-> rel_stats]
    /\ UNCHANGED <<serviceVars, ingested, demo, run, batches, metrics, monitor>>

\* neo4j_service.process_healthcare_message(data) before the statistics are
\* asked for, the call not being kept: the store is grown as in Next
Load(data) ==
    /\ report.pc = "none"
    /\ \E out \in {execute_write(Graph, data)} :
          /\ nodes' = out.graph.nodes
          /\ edges' = out.graph.edges
    /\ Cardinality(DOMAIN nodes') <= MaxNodes
    /\ UNCHANGED <<last, tx, appVars>>

\* the messages of the long runs and one of a type that title() turns into
\* two labels
StatsChoices == RunChoices \cup {<<"lab:result", "i1", "bare", EmptyDict>>}

\* messages are ingested one after another and then the statistics are asked
\* for
NextStats ==
    \/ \E c \in StatsChoices :
          /\ Cardinality(DOMAIN nodes) = MaxNodes => Kind(c[1]) \in ReferenceKinds
          /\ Load(MessageOf(c))
    \/ GetStatistics

SpecStats == Init /\ [][NextStats]_vars

---------------------------------------------------------------------------
(* A data set that reaches the service in any order: the publisher hands   *)
(* its batches to a pool of workers and each record is ingested once, in   *)
(* the order the records arrive in.                                        *)

\* one record of each known kind, each referring to the ones before it
DataSet ==
    SeedMessages \o
    <<Message("medication", "i1", "A",
              ("patient_id" :> "i1") @@ ("prescribing_doctor_id" :> "i1")),
      Message("procedure", "i1", "A",
              ("patient_id" :> "i1") @@ ("performing_doctor_id" :> "i1")
                  @@ ("hospital_id" :> "i1"))>>

\* the store after the records of the data set in the order of the data set
RECURSIVE InOrder(_, _)
InOrder(g, i) ==
    IF i > Len(DataSet) THEN g
    ELSE InOrder(execute_write(g, DataSet[i]).graph, i + 1)

\* neo4j_service.process_healthcare_message(data) for a record that has not
\* been ingested
IngestRecord(i) ==
    /\ i \notin ingested
    /\ \E out \in {execute_write(Graph, DataSet[i])} :
          /\ nodes' = out.graph.nodes
          /\ edges' = out.graph.edges
    /\ ingested' = ingested \cup {i}
    /\ UNCHANGED <<last, tx, stats, tasks, callbacks, webhooks, direct, reader,
                   shutdown, run, batches, metrics, monitor, report, demo>>

NextOrder == \E i \in DOMAIN DataSet : IngestRecord(i)

SpecOrder == Init /\ [][NextOrder]_vars

---------------------------------------------------------------------------
(* The demo automation: HealthcareDemo sets up the topic and the pull      *)
(* subscription, on a cloud demo builds the image, deploys the service and *)
(* creates the push subscription, and then offers to delete what it has    *)
(* created.  demo.cloud is what the project holds, demo.made what this run *)
(* has brought into being, demo.deleted the resources a delete command was *)
(* run for.                                                                *)

Resources ==
    {"cloud_run_service", "pubsub_topic", "pubsub_subscription",
     "container_image", "push_subscription"}

\* self.created_resources
NoCreatedResources ==
    [cloud_run_service |-> FALSE, pubsub_topic |-> FALSE,
     pubsub_subscription |-> FALSE, container_image |-> FALSE]

DemoTypes == {"local", "cloud", "quick"}

\* main(): run_complete_demo(demo_type), or with --cleanup-only the offer
\* alone; the project holds any of the resources when the run begins
InitDemo ==
    /\ nodes = <<>>
    /\ edges = <<>>
    /\ last = NoCall
    /\ tx = NoTx
    /\ stats = NoStats
    /\ tasks = [i \in Deliveries |-> NoTask]
    /\ callbacks = [i \in Deliveries |-> NoCallback]
    /\ webhooks = [i \in Deliveries |-> NoWebhook]
    /\ direct = NoDirect
    /\ reader = NoReader
    /\ shutdown = "running"
    /\ run = NoRun
    /\ batches = <<>>
    /\ metrics = NoMetrics
    /\ monitor = NoMonitor
    /\ report = NoReport
    /\ ingested = {}
    /\ \E demo_type \in DemoTypes, cleanup_only \in BOOLEAN, cloud \in SUBSET Resources :
          demo = [pc |-> IF cleanup_only THEN "offer" ELSE "topic",
                  demo_type |-> demo_type, cloud |-> cloud,
                  created_resources |-> NoCreatedResources,
                  made |-> {}, deleted |-> {}, accepted |-> FALSE]

\* a gcloud ... create command: it fails when the resource is there, and it
\* can fail for another reason; when it succeeds the resource is there and
\* this run has made it
Create(d, resource, fails) ==
    IF resource \in d.cloud \/ fails THEN d
    ELSE [d EXCEPT !.cloud = @ \cup {resource}, !.made = @ \cup {resource}]

Created(d, resource, fails) == ~(resource \in d.cloud \/ fails)

\* a flag of created_resources set when the command has succeeded
Flag(d, key, ok) ==
    IF ok THEN [d EXCEPT !.created_resources[key] = TRUE] ELSE d

DemoUnchanged ==
    UNCHANGED <<nodes, edges, last, tx, stats, tasks, callbacks, webhooks, direct,
                reader, shutdown, run, batches, metrics, monitor, report, ingested>>

\* _setup_pubsub: gcloud pubsub topics create
SetupTopic ==
    /\ demo.pc = "topic"
    /\ \E fails \in BOOLEAN :
          demo' = [Flag(Create(demo, "pubsub_topic", fails), "pubsub_topic",
                        Created(demo, "pubsub_topic", fails))
                   EXCEPT !.pc = "subscription"]
    /\ DemoUnchanged

\* _setup_pubsub: gcloud pubsub subscriptions create; the deployment follows
\* on a cloud demo, the offer of the cleanup on the others
SetupSubscription ==
    /\ demo.pc = "subscription"
    /\ \E fails \in BOOLEAN :
          demo' = [Flag(Create(demo, "pubsub_subscription", fails),
                        "pubsub_subscription",
                        Created(demo, "pubsub_subscription", fails))
                   EXCEPT !.pc = IF demo.demo_type = "cloud" THEN "build"
                                 ELSE "offer"]
    /\ DemoUnchanged

\* _deploy_to_cloud_run: gcloud builds submit --tag; a failure is raised to
\* run_complete_demo, whose finally clause offers the cleanup
BuildImage ==
    /\ demo.pc = "build"
    /\ \E fails \in BOOLEAN :
          demo' = IF fails THEN [demo EXCEPT !.pc = "offer"]
                  ELSE [Flag([demo EXCEPT
                                 !.cloud = @ \cup {"container_image"},
                                 !.made = @ \cup ({"container_image"} \ demo.cloud)],
                             "container_image", TRUE)
                        EXCEPT !.pc = "deploy"]
    /\ DemoUnchanged

\* whether gcloud run deploy succeeds: it creates the service, or deploys a
\* revision to the service of that name when there is one
Deploy(d, fails) == ~fails

\* _deploy_to_cloud_run: gcloud run deploy
DeployService ==
    /\ demo.pc = "deploy"
    /\ \E fails \in BOOLEAN :
          demo' = IF ~Deploy(demo, fails) THEN [demo EXCEPT !.pc = "offer"]
                  ELSE [Flag([demo EXCEPT
                                 !.cloud = @ \cup {"cloud_run_service"},
                                 !.made = @ \cup ({"cloud_run_service"} \ demo.cloud)],
                             "cloud_run_service", TRUE)
                        EXCEPT !.pc = "push"]
    /\ DemoUnchanged

\* _deploy_to_cloud_run: gcloud pubsub subscriptions create ...-push; no
\* flag is kept for it
CreatePushSubscription ==
    /\ demo.pc = "push"
    /\ \E fails \in BOOLEAN :
          demo' = [Create(demo, "push_subscription", fails) EXCEPT !.pc = "offer"]
    /\ DemoUnchanged

\* _offer_cleanup: input() is 'y' and _cleanup_resources runs, or it is
\* something else and the commands are shown
OfferCleanup ==
    /\ demo.pc = "offer"
    /\ \E cleanup \in {"y", "n"} :
          demo' = [demo EXCEPT !.accepted = (cleanup = "y"),
                               !.pc = IF cleanup = "y" THEN "delete_service"
                                      ELSE "done"]
    /\ DemoUnchanged

\* a gcloud ... delete command under its flag: the command is run when the
\* flag is set, and it can fail
Delete(d, key, fails) ==
    IF ~d.created_resources[key] THEN d
    ELSE [d EXCEPT !.deleted = @ \cup {key},
                   !.cloud = IF fails THEN @ ELSE @ \ {key}]

\* _cleanup_resources: gcloud run services delete
DeleteService ==
    /\ demo.pc = "delete_service"
    /\ \E fails \in BOOLEAN :
          demo' = [Delete(demo, "cloud_run_service", fails)
                   EXCEPT !.pc = "delete_subscription"]
    /\ DemoUnchanged

\* _cleanup_resources: gcloud pubsub subscriptions delete
DeleteSubscription ==
    /\ demo.pc = "delete_subscription"
    /\ \E fails \in BOOLEAN :
          demo' = [Delete(demo, "pubsub_subscription", fails)
                   EXCEPT !.pc = "delete_topic"]
    /\ DemoUnchanged

\* _cleanup_resources: gcloud pubsub topics delete, the last command
DeleteTopic ==
    /\ demo.pc = "delete_topic"
    /\ \E fails \in BOOLEAN :
          demo' = [Delete(demo, "pubsub_topic", fails) EXCEPT !.pc = "done"]
    /\ DemoUnchanged

NextDemo ==
    \/ SetupTopic
    \/ SetupSubscription
    \/ BuildImage
    \/ DeployService
    \/ CreatePushSubscription
    \/ OfferCleanup
    \/ DeleteService
    \/ DeleteSubscription
    \/ DeleteTopic

SpecDemo == InitDemo /\ [][NextDemo]_vars

---------------------------------------------------------------------------
(* Properties of the write handlers                                        *)

LastKind == Kind(Get(last.data, "type", Absent))

LastOk == last.called /\ last.ok

\* the nodes the last message wrote: those with its label and id
LastNodes == Match(Graph, Title(LastKind), last.data["id"])

\* a foreign id that is in the message and not empty
Present(data, key) == key \in DOMAIN data /\ data[key] # ""

\* the label of the node a foreign-id key refers to
TargetLabel(key) ==
    CASE key = "hospital_id" -> "Hospital"
      [] key = "patient_id" -> "Patient"
      [] OTHER -> "Doctor"

EdgesBetween(type, a, b) == EdgeCopies(edges, type, a, b)

\* C1: for each reference kind the store holds at most one node per id, and
\* after a reference entity is ingested (again, with other field values) its
\* one node has the field values of that last message.
C1_OneNodePerId ==
    /\ \A kind \in ReferenceKinds, id \in Ids :
          Cardinality(Match(Graph, Title(kind), id)) <= 1
    /\ (LastOk /\ LastKind \in ReferenceKinds) =>
          \E n \in DOMAIN nodes :
              /\ LastNodes = {n}
              /\ \A k \in DOMAIN last.data \ ({"type", "id"} \cup RefKeys(LastKind)) :
                    nodes[n].props[k] = last.data[k]

\* a reference entity ingested a second time, the call having changed the
\* fields of the node the first one wrote
C1_Witness ==
    /\ LastOk
    /\ LastKind \in ReferenceKinds
    /\ last.created = {}
    /\ last.updated

\* C2: each successful ingestion of an event adds exactly one node, of the
\* event's kind and with its id, and leaves the nodes that were there alone,
\* whether or not a node with that id or that content is there already.
C2_EventAddsOneNode ==
    (LastOk /\ LastKind \in EventKinds) =>
        /\ Cardinality(last.created) = 1
        /\ ~last.updated
        /\ \A n \in last.created :
              /\ nodes[n].label = Title(LastKind)
              /\ nodes[n].props["id"] = last.data["id"]

\* two events with distinct ids and the same content are two nodes
C2_Witness ==
    /\ LastOk
    /\ LastKind \in EventKinds
    /\ \E n \in last.created, m \in DOMAIN nodes :
          /\ nodes[m].label = nodes[n].label
          /\ nodes[m].props["id"] # nodes[n].props["id"]
          /\ \A k \in DOMAIN nodes[m].props \ {"id"} :
                nodes[m].props[k] = nodes[n].props[k]

\* C3: every relationship joins two nodes of the store, and a call adds
\* relationships only between nodes that were there before it and the node
\* it wrote itself: a foreign id that matches no node adds none and creates
\* no node.
C3_EdgesJoinNodes ==
    /\ \A e \in DOMAIN edges : e[2] \in DOMAIN nodes /\ e[3] \in DOMAIN nodes
    /\ (LastOk /\ LastKind \in Known) =>
          /\ last.created \subseteq LastNodes
          /\ \A e \in last.added : {e[2], e[3]} \cap LastNodes # {}
          /\ (\A key \in RefKeys(LastKind) :
                  Present(last.data, key) =>
                      Match(Graph, TargetLabel(key), last.data[key]) = {})
                => last.added = {}

\* a message with a foreign id that matches no node, and one that matches,
\* has been ingested: one relationship added, none for the missing node
C3_Witness ==
    /\ LastOk
    /\ LastKind = "diagnosis"
    /\ Present(last.data, "patient_id")
    /\ Match(Graph, "Patient", last.data["patient_id"]) = {}
    /\ Present(last.data, "doctor_id")
    /\ Match(Graph, "Doctor", last.data["doctor_id"]) # {}
    /\ Cardinality(last.added) = 1

\* the store in which every node a message can refer to exists
FullGraph ==
    RunAll(EmptyGraph,
        <<MergeStmt("Hospital", "i1", EmptyDict), MergeStmt("Hospital", "i2", EmptyDict),
          MergeStmt("Doctor", "i1", EmptyDict), MergeStmt("Doctor", "i2", EmptyDict),
          MergeStmt("Patient", "i1", EmptyDict), MergeStmt("Patient", "i2", EmptyDict)>>)

\* C4: a foreign id that was never ingested changes neither the outcome of
\* the call nor the relationships_created it returns: both are what the same
\* message gives on a store where every referenced node exists, and a message
\* of a known kind that carries its own id raises nothing.
C4_CountIgnoresMissing ==
    last.called =>
        LET full == execute_write(FullGraph, last.data)
        IN  /\ last.ok = full.ok
            /\ last.ok => last.result.relationships_created
                              = full.result.relationships_created
            /\ ("id" \in DOMAIN last.data /\ LastKind \in Known) => last.ok

\* a diagnosis whose patient was never ingested returned 2 and added only the
\* relationship to its doctor
C4_Witness ==
    /\ LastOk
    /\ LastKind = "diagnosis"
    /\ Present(last.data, "patient_id")
    /\ Match(Graph, "Patient", last.data["patient_id"]) = {}
    /\ last.result.relationships_created = 2
    /\ Cardinality(last.added) = 1

\* C5: the relationships_created a handler returns is the number of its
\* kind's foreign-id keys that are in the message and not empty: none for a
\* hospital and for a kind the service does not know, at most 1 for a doctor
\* and a patient, 2 for a diagnosis and a medication, 3 for a procedure.
C5_CountsPresentKeys ==
    LastOk =>
        /\ last.result.relationships_created =
              IF LastKind \in Known
              THEN Cardinality({k \in RefKeys(LastKind) : Present(last.data, k)})
              ELSE 0
        /\ last.result.relationships_created <=
              CASE LastKind \in {"doctor", "patient"} -> 1
                [] LastKind \in {"diagnosis", "medication"} -> 2
                [] LastKind = "procedure" -> 3
                [] OTHER -> 0

\* a procedure with an empty patient id and the two other foreign ids returned 2
C5_Witness ==
    /\ LastOk
    /\ LastKind = "procedure"
    /\ Get(last.data, "patient_id", Absent) = ""
    /\ Present(last.data, "performing_doctor_id")
    /\ Present(last.data, "hospital_id")
    /\ last.result.relationships_created = 2

\* the end-to-end scenario: hospital i1, then doctor i1 of hospital i1, then a
\* diagnosis whose doctor is i1 and whose patient was never ingested
InScenario ==
    /\ LastOk
    /\ LastKind = "diagnosis"
    /\ DOMAIN nodes =
          {<<"Hospital", "i1", 1>>, <<"Doctor", "i1", 1>>, <<"Diagnosis", "i1", 1>>}
    /\ EdgesBetween("WORKS_AT", <<"Doctor", "i1", 1>>, <<"Hospital", "i1", 1>>) # {}
    /\ Present(last.data, "patient_id")
    /\ Get(last.data, "doctor_id", Absent) = "i1"

\* C6 as stated: in the scenario the diagnosis returns relationships_created 1
C6_ScenarioReturnsOne ==
    InScenario => last.result.relationships_created = 1

\* C6, amended: in the scenario the diagnosis creates one Diagnosis node,
\* adds the one relationship to its doctor and returns relationships_created
\* 2, the relationship to the missing patient counted as well.
C6_ScenarioReturnsTwo ==
    InScenario =>
        /\ last.created = {<<"Diagnosis", "i1", 1>>}
        /\ last.result.relationships_created = 2
        /\ last.added =
              {<<"DIAGNOSED", <<"Doctor", "i1", 1>>, <<"Diagnosis", "i1", 1>>, 1>>}

C6_Witness == InScenario

\* C7: between a doctor and a hospital there is at most one WORKS_AT and
\* between a patient and a doctor at most one HAS_PRIMARY_CARE_DOCTOR however
\* often the entity is ingested again, and exactly one after an ingestion
\* whose foreign id matches a node.
C7_ReferenceEdgesUpsert ==
    /\ \A a, b \in DOMAIN nodes :
          /\ Cardinality(EdgesBetween("WORKS_AT", a, b)) <= 1
          /\ Cardinality(EdgesBetween("HAS_PRIMARY_CARE_DOCTOR", a, b)) <= 1
    /\ (LastOk /\ LastKind = "doctor" /\ Present(last.data, "hospital_id")) =>
          \A a \in LastNodes, b \in Match(Graph, "Hospital", last.data["hospital_id"]) :
              Cardinality(EdgesBetween("WORKS_AT", a, b)) = 1
    /\ (LastOk /\ LastKind = "patient" /\ Present(last.data, "primary_care_doctor")) =>
          \A a \in LastNodes,
             b \in Match(Graph, "Doctor", last.data["primary_care_doctor"]) :
              Cardinality(EdgesBetween("HAS_PRIMARY_CARE_DOCTOR", a, b)) = 1

\* a doctor ingested again with the hospital it is already linked to: the
\* call found the relationship and added none
C7_Witness ==
    /\ LastOk
    /\ LastKind = "doctor"
    /\ Present(last.data, "hospital_id")
    /\ Match(Graph, "Hospital", last.data["hospital_id"]) # {}
    /\ last.created = {}
    /\ last.added = {}

\* the graph the statements of the transaction's message give when all of
\* them are run on the graph the transaction started from
AllWritten == RunAll(tx.before, create_healthcare_entity(tx.data).stmts)

---------------------------------------------------------------------------
(* Properties of the dispatcher and the pull callback                      *)

\* C9: a delivered message gets no ack and no nack before its callback
\* returns and exactly one of them when it does: an ack only when the dispatch
\* returned its result to the callback, a nack whenever the dispatch raised
\* (a decode error, a store error) or the 30-second wait timed out.
C9_AckOrNack ==
    \A i \in Deliveries :
        /\ callbacks[i].pc # "returned" => callbacks[i].calls = <<>>
        /\ callbacks[i].pc = "returned" =>
              /\ callbacks[i].calls \in {<<"ack">>, <<"nack">>}
              /\ callbacks[i].calls = <<"ack">> =>
                    (tasks[i].pc = "returned" /\ callbacks[i].outcome = "result")
              /\ (tasks[i].pc = "raised" \/ callbacks[i].outcome = "TimeoutError")
                    => callbacks[i].calls = <<"nack">>

\* one message was acknowledged after its dispatch returned, and another was
\* negative-acknowledged on the timeout although its dispatch went on and
\* returned
C9_Witness ==
    \E i, j \in Deliveries :
        /\ callbacks[i].pc = "returned"
        /\ callbacks[i].calls = <<"ack">>
        /\ callbacks[j].pc = "returned"
        /\ callbacks[j].outcome = "TimeoutError"
        /\ callbacks[j].calls = <<"nack">>
        /\ tasks[j].pc = "returned"

AllDone == \A i \in Deliveries : TaskDone(i)

\* the sum of the relationships_created of the dispatches of S that returned
RECURSIVE SumRelationships(_)
SumRelationships(S) ==
    IF S = {} THEN 0
    ELSE LET i == CHOOSE x \in S : TRUE
         IN  (IF tasks[i].pc = "returned"
              THEN tasks[i].out["relationships_created"] ELSE 0)
             + SumRelationships(S \ {i})

\* C10: once every dispatch has ended, messages_processed is the number of
\* dispatches that returned, messages_failed the number that raised and
\* relationships_created the sum of the relationships_created of the results.
C10_NoLostUpdate ==
    AllDone =>
        /\ stats.messages_processed =
              Cardinality({i \in Deliveries : tasks[i].pc = "returned"})
        /\ stats.messages_failed =
              Cardinality({i \in Deliveries : tasks[i].pc = "raised"})
        /\ stats.relationships_created = SumRelationships(Deliveries)

Counters ==
    {"messages_processed", "messages_failed", "relationships_created",
     "total_processing_time"}

\* C11: no step of any execution lowers a counter, the executions in which
\* several workers and requests update the counters at once included.
C11_CountersNeverDecrease ==
    [][\A k \in Counters : stats'[k] >= stats[k]]_vars

\* C12: the values a request that reports the counters has read all belong
\* to one state the counters were in while it read them.
C12_ReadsOneState ==
    (reader.pc = "responded" /\ reader.status = 200) =>
        \E s \in reader.seen :
            \A n \in 1..Len(reader.got) : s[reader.got[n][1]] = reader.got[n][2]

Returned == {i \in Deliveries : tasks[i].pc = "returned"}

Raised == {i \in Deliveries : tasks[i].pc = "raised"}

FailureCounted(i) ==
    /\ tasks[i].pc \in {"stats", "raised"}
    /\ ~tasks[i].ok
    /\ tasks[i].pc = "stats" =>
          \A n \in 1..Len(tasks[i].updates) :
              tasks[i].updates[n][1] # "messages_failed"

\* C14: a message that ended in a failure outcome (the webhook answered 400
\* or 500, the pull callback called nack, the direct endpoint answered 500)
\* has had messages_failed incremented for it.
C14_FailuresCounted ==
    /\ \A i \in Deliveries :
          /\ (webhooks[i].pc = "responded" /\ webhooks[i].status \in {400, 500})
                => FailureCounted(i)
          /\ (callbacks[i].pc = "returned" /\ callbacks[i].calls = <<"nack">>)
                => FailureCounted(i)
    /\ (direct.pc = "responded" /\ direct.status = 500) => ~direct.ok

DecodeErrors == {"JSONDecodeError", "UnicodeDecodeError", "TypeError"}

\* the dispatch of delivery i has gone through the decoding
Decoded(i) == tasks[i].pc \notin {"none", "queued"}

\* the decoding of delivery i raised
DecodeFailed(i) ==
    /\ tasks[i].pc \in {"stats", "raised"}
    /\ ~tasks[i].ok
    /\ tasks[i].out \in DecodeErrors

\* C19: a payload delivered as bytes that are the UTF-8 JSON text of a
\* message is decoded as UTF-8, to that message; the base64 decoding has no
\* part in it, and the decoding does not fail.
C19_BytesDecodeAsUtf8 ==
    \A i \in Deliveries :
        (Decoded(i) /\ tasks[i].payload.form = "bytes"
                    /\ tasks[i].payload.content = "json") =>
            /\ ~DecodeFailed(i)
            /\ tasks[i].pc = "decoded" =>
                  (tasks[i].via = "utf-8" /\ tasks[i].data = tasks[i].payload.data)

\* a pull message published as UTF-8 JSON bytes has been decoded
C19_Witness ==
    \E i \in Deliveries :
        /\ tasks[i].pc = "decoded"
        /\ tasks[i].payload.form = "bytes"
        /\ tasks[i].payload.content = "json"
        /\ tasks[i].via = "utf-8"
        /\ tasks[i].data = PullPayloads[2].data

\* C20: the data of a push message, the base64 text of a JSON message handed
\* to the dispatcher as the webhook takes it from the envelope, is decoded to
\* that message: its decoding does not fail, and when the store does its part
\* the webhook answers 200.
C20_PushDataDecodes ==
    \A i \in Deliveries :
        (Decoded(i) /\ tasks[i].payload.content = "base64") =>
            /\ ~DecodeFailed(i)
            /\ tasks[i].pc = "decoded" => tasks[i].data = tasks[i].payload.data
            /\ (webhooks[i].pc = "responded" /\ webhooks[i].outcome = "exception")
                  => tasks[i].out = "Neo4jError"

\* C15: once the store connection has been closed no dispatch task is queued
\* or running: the pool was drained before the close.
C15_CloseAfterDrain ==
    shutdown # "running" => InFlight = {}

---------------------------------------------------------------------------
(* Properties of the classification and of the fields written              *)

\* the nodes the last call wrote: the one it created, or the ones of its id
\* it updated
LastWritten == IF LastKind \in EventKinds THEN last.created ELSE LastNodes

\* the data fields the handler of a kind writes
ManagedFields(kind) == DOMAIN FieldsA(kind)

\* the value a handler writes for a field the message does not hold
DefaultOf(field) ==
    CASE field \in {"bed_count", "years_experience", "age", "quantity", "refills",
                    "duration_minutes", "cost"} -> 0
      [] field \in {"trauma_center", "teaching_hospital"} -> FALSE
      [] OTHER -> ""

\* C16: the type is matched whatever its case, and every message whose type
\* is none of the six known kinds, or is missing, goes to the generic handler,
\* which creates exactly one node, returns relationships_created 0 and raises
\* nothing.
C16_ClassificationTotal ==
    last.called =>
        /\ (LastKind \in Known /\ "id" \in DOMAIN last.data) =>
              /\ last.ok
              /\ last.result.type = Title(LastKind)
              /\ \A n \in LastWritten :
                    DOMAIN nodes[n].props = {"id"} \cup ManagedFields(LastKind)
        /\ LastKind \notin Known =>
              /\ last.ok
              /\ Cardinality(last.created) = 1
              /\ ~last.updated
              /\ last.added = {}
              /\ last.result.relationships_created = 0

\* C17: a message that carries no id is given one before the write: the call
\* succeeds, the node written has an id, and that id is the entity_id the
\* call returns.
C17_IdAssigned ==
    (last.called /\ "id" \notin DOMAIN last.data) =>
        /\ last.ok
        /\ Cardinality(last.created) = 1
        /\ \A n \in last.created :
              /\ "id" \in DOMAIN nodes[n].props
              /\ nodes[n].props["id"] = last.result.entity_id

\* C18: a message of a known kind with any of its data fields missing is
\* written without an error, and the node holds every field of its kind: the
\* value of the message where it has one, the default (empty string, 0 or
\* false) where it has none.
C18_MissingFieldsDefault ==
    (last.called /\ LastKind \in Known /\ "id" \in DOMAIN last.data) =>
        /\ last.ok
        /\ LastWritten # {}
        /\ \A n \in LastWritten :
              /\ DOMAIN nodes[n].props = {"id"} \cup ManagedFields(LastKind)
              /\ \A k \in ManagedFields(LastKind) :
                    nodes[n].props[k] =
                        IF k \in DOMAIN last.data THEN last.data[k] ELSE DefaultOf(k)

\* a patient message with no data field at all has been written: the node
\* holds the defaults
C18_Witness ==
    /\ LastOk
    /\ LastKind = "patient"
    /\ DOMAIN last.data \cap ManagedFields("patient") = {}
    /\ \E n \in LastWritten :
          /\ nodes[n].props["age"] = 0
          /\ nodes[n].props["mrn"] = ""

---------------------------------------------------------------------------
(* Properties of the decodings and of the transactions of a dispatch       *)

\* C21: a payload handed to the dispatcher as a mapping, already decoded, is
\* accepted: its decoding does not fail and gives the mapping itself, as the
\* UTF-8 JSON bytes of the same message do, so that the write is the same.
C21_MappingAccepted ==
    \A i \in Deliveries :
        (Decoded(i) /\ tasks[i].payload.form = "dict") =>
            /\ ~DecodeFailed(i)
            /\ tasks[i].pc = "decoded" =>
                  tasks[i].data =
                      Decode(Payload("bytes", "json", tasks[i].payload.data)).data

\* a payload whose text is neither JSON nor the base64 of JSON
Malformed(payload) == payload.content \in {"text", "binary"}

\* C22: a dispatch whose payload no decoding parses starts no write
\* transaction and ends by raising the error of the decoding to its caller.
C22_MalformedRaises ==
    \A i \in Deliveries :
        (Decoded(i) /\ Malformed(tasks[i].payload)) =>
            /\ DecodeFailed(i)
            /\ tasks[i].txs = 0
            /\ tasks[i].pc # "returned"
            /\ callbacks[i].pc = "returned" => callbacks[i].outcome # "result"

\* a payload that is not JSON has been dispatched and its callback has had
\* the error
C22_Witness ==
    \E i \in Deliveries :
        /\ tasks[i].pc = "raised"
        /\ tasks[i].payload.content = "text"
        /\ tasks[i].txs = 0
        /\ callbacks[i].pc = "returned"
        /\ callbacks[i].outcome = "exception"

\* C23: nothing is retried: a call of the service's process_healthcare_message
\* runs its handler in one transaction and no more, whether the call succeeds
\* or fails, and the publisher hands no record to the transport twice.
C23_NoRetry ==
    /\ tx.state # "none" => tx.attempts = 1
    /\ \A r \in DOMAIN run.handed : run.handed[r] <= 1

---------------------------------------------------------------------------
(* Properties of the publisher                                             *)

\* the least number of batches of a given size that hold n records
Ceil(n, size) == (n + size - 1) \div size

\* the first k batches put end to end
RECURSIVE ConcatTo(_, _)
ConcatTo(B, k) == IF k = 0 THEN <<>> ELSE ConcatTo(B, k - 1) \o B[k]

\* the batches the run has formed
Formed == [b \in DOMAIN batches |-> batches[b].messages]

\* the sizes of the batches of 237 records with batch_size 50
SizesOf237By50 ==
    [k \in DOMAIN Batches([r \in 1..237 |-> r], 50) |->
        Len(Batches([r \in 1..237 |-> r], 50)[k])]

\* C24: n records and a batch_size of 1 or more give ceil(n / batch_size)
\* batches; every batch but the last holds batch_size records, the last from
\* 1 to batch_size, and the batches put end to end are the records in their
\* order.  237 records with batch_size 50 give batches of 50, 50, 50, 50, 37.
C24_BatchesPartition ==
    /\ run.pc \in {"publishing", "finished"} =>
          /\ Len(Formed) = Ceil(Len(run.records), run.batch_size)
          /\ \A b \in 1..(Len(Formed) - 1) : Len(Formed[b]) = run.batch_size
          /\ Len(Formed) > 0 => Len(Formed[Len(Formed)]) \in 1..run.batch_size
          /\ ConcatTo(Formed, Len(Formed)) = run.records
    /\ SizesOf237By50 = <<50, 50, 50, 50, 37>>

\* three records have been split with batch_size 2: a full batch and a
\* shorter last one
C24_Witness ==
    /\ run.pc = "publishing"
    /\ Len(run.records) = 3
    /\ run.batch_size = 2
    /\ Len(Formed) = 2
    /\ Len(Formed[2]) = 1

\* C25: when a run over n records has completed, the statistics it returns
\* have messages_sent + messages_failed = n, whatever became of each record.
C25_EveryRecordCounted ==
    run.pc = "finished" =>
        run.final.messages_sent + run.final.messages_failed = Len(run.records)

\* every message of the batch was submitted: the batch waits for its futures
Submitted(b) ==
    \A k \in 1..Len(batches[b].messages) :
        run.fate[batches[b].messages[k]] # "raise"

\* what is recorded for a message whose future was waited for
TallyOf(r) == IF run.fate[r] = "ok" THEN "record_success" ELSE "record_failure"

\* C26: a batch is not atomic.  Every message of a batch whose messages were
\* all submitted is waited for and tallied by its own outcome, whatever the
\* messages before it gave: a publish that fails or times out is one
\* failure, and the counts the batch returns are the numbers of its messages
\* of each outcome.
C26_TalliedOneByOne ==
    \A b \in DOMAIN batches :
        (batches[b].pc \in {"await", "time", "done"} /\ Submitted(b)) =>
            LET bt == batches[b]
                waited == IF bt.pc = "await" THEN bt.idx - 1 ELSE Len(bt.messages)
            IN  /\ Len(bt.tallied) = waited
                /\ \A k \in 1..waited : bt.tallied[k] = TallyOf(bt.messages[k])
                /\ bt.batch_success =
                      Cardinality({k \in 1..waited : run.fate[bt.messages[k]] = "ok"})
                /\ bt.batch_failed =
                      Cardinality({k \in 1..waited : run.fate[bt.messages[k]] = "failed"})
                /\ bt.pc = "done" => bt.result = <<bt.batch_success, bt.batch_failed>>

\* a batch of two has returned whose first publish failed and whose second
\* succeeded
C26_Witness ==
    \E b \in DOMAIN batches :
        /\ batches[b].pc = "done"
        /\ batches[b].tallied = <<"record_failure", "record_success">>
        /\ batches[b].result = <<1, 1>>

\* the statistics get_stats has returned: to the thread that asked while the
\* batches were being published, and at the end of the run
Snapshots ==
    (IF monitor.pc = "done" THEN {monitor.stats} ELSE {})
    \cup (IF run.pc = "finished" THEN {run.final} ELSE {})

Abs(x) == IF x < 0 THEN 0 - x ELSE x

\* C27 as stated: in every statistics snapshot success_rate_percent is
\* 100 * messages_sent / (messages_sent + messages_failed) when the total is
\* not zero, and 0 when it is.  The rate is in hundredths of a percent.
C27_RateIsExactQuotient ==
    \A s \in Snapshots :
        LET total == s.messages_sent + s.messages_failed
        IN  IF total = 0 THEN s.success_rate_percent = 0
            ELSE s.success_rate_percent * total = 10000 * s.messages_sent

\* C27: in every statistics snapshot success_rate_percent is
\* 100 * messages_sent / (messages_sent + messages_failed) rounded to two
\* decimals when the total is not zero, so within half a hundredth of the
\* quotient, and 0 when the total is zero.
C27_RateIsRoundedQuotient ==
    \A s \in Snapshots :
        LET total == s.messages_sent + s.messages_failed
        IN  IF total = 0 THEN s.success_rate_percent = 0
            ELSE 2 * Abs(s.success_rate_percent * total - 10000 * s.messages_sent)
                    <= total

\* a run has ended with two of three records sent: the rate is 66.67
C27_Witness ==
    /\ run.pc = "finished"
    /\ run.final.messages_sent = 2
    /\ run.final.messages_failed = 1
    /\ run.final.success_rate_percent = 6667

\* C28: no update of the metrics is lost and no snapshot is torn.  Whenever
\* no thread is inside a method of the metrics, messages_sent,
\* messages_failed and the number of batch times are the numbers of calls of
\* record_success, record_failure and record_batch_time that have returned;
\* and every get_stats result has total_messages = messages_sent +
\* messages_failed.
C28_MetricsUnderLock ==
    /\ (run.pc \in {"publishing", "finished"}
        /\ \A b \in Running : ~batches[b].held) =>
          /\ metrics.messages_sent = metrics.calls.record_success
          /\ metrics.messages_failed = metrics.calls.record_failure
          /\ metrics.batch_times = metrics.calls.record_batch_time
    /\ \A s \in Snapshots : s.total_messages = s.messages_sent + s.messages_failed

\* two batches are being published, one inside a method of the metrics and
\* one before its next call, after a snapshot was taken that holds a record
\* and after calls of both kinds
C28_Witness ==
    /\ \E b \in Running : \E c \in Running \ {b} :
          batches[b].held /\ ~batches[c].held
    /\ monitor.pc = "done"
    /\ monitor.stats.total_messages >= 1
    /\ metrics.calls.record_success >= 1
    /\ metrics.calls.record_failure >= 1

\* C29: at most max_workers batches are being published at any moment, the
\* others waiting in the queue in the order they were handed in, and when the
\* run completes every batch has been run to its end.
C29_BoundedPool ==
    run.pc \in {"publishing", "finished"} =>
        /\ Cardinality(Running) <= run.max_workers
        /\ \A b \in DOMAIN batches :
              batches[b].pc = "queued" =>
                  \A c \in DOMAIN batches : c > b => batches[c].pc = "queued"
        /\ run.pc = "finished" => \A b \in DOMAIN batches : batches[b].pc = "done"

\* every worker is busy and a batch waits in the queue
C29_Witness ==
    /\ run.pc = "publishing"
    /\ Cardinality(Running) = run.max_workers
    /\ \E b \in DOMAIN batches : batches[b].pc = "queued"

---------------------------------------------------------------------------
(* Properties of the statistics                                            *)

\* C30: the statistics of a graph that ingestion has produced have
\* total_nodes equal to the number of nodes of the store and
\* total_relationships equal to its number of relationships, each the sum of
\* the counts of the groups listed, and the groups of each list come from the
\* largest count to the smallest.
C30_StatisticsTotals ==
    report.pc = "done" =>
        /\ report.total_nodes = Cardinality(DOMAIN nodes)
        /\ report.total_relationships = Cardinality(DOMAIN edges)
        /\ report.total_nodes = SumCounts(report.node_statistics)
        /\ report.total_relationships = SumCounts(report.relationship_statistics)
        /\ \A i \in 1..(Len(report.node_statistics) - 1) :
              report.node_statistics[i].count >= report.node_statistics[i + 1].count
        /\ \A i \in 1..(Len(report.relationship_statistics) - 1) :
              report.relationship_statistics[i].count
                  >= report.relationship_statistics[i + 1].count
        /\ \A i, j \in DOMAIN report.node_statistics :
              i # j => report.node_statistics[i].entity_type
                          # report.node_statistics[j].entity_type

---------------------------------------------------------------------------
(* Properties of the store over several ingestions                         *)

\* C31: the statistics that the second node query gave, the first having
\* raised, hold the same fields, totals and counts by label as the first
\* query gives on the same graph.
C31_FallbackSameCounts ==
    (report.pc = "done" /\ ~report.apoc) =>
        /\ DOMAIN report = {"pc", "apoc", "total_nodes", "total_relationships",
                            "node_statistics", "relationship_statistics"}
        /\ report.total_nodes = Cardinality(DOMAIN nodes)
        /\ report.total_relationships = Cardinality(DOMAIN edges)
        /\ {<<report.node_statistics[i].entity_type, report.node_statistics[i].count>> :
                i \in DOMAIN report.node_statistics}
             = {<<l, NodeCounts(Graph)[l]>> : l \in DOMAIN NodeCounts(Graph)}

\* C34: a delivery of the pull path that ended with nack() has committed
\* nothing to the graph: its dispatch task has committed no write, also when
\* the nack() followed the 30 seconds of the callback's wait running out
\* with the task still in the pool.
C34_NackLeavesNothing ==
    \A i \in Deliveries :
        (callbacks[i].pc = "returned" /\ callbacks[i].calls = <<"nack">>) =>
            ~("ok" \in DOMAIN tasks[i] /\ tasks[i].ok)

\* C32: when every record of the data set has been ingested once, the graph
\* is the one that the records give in the order of the data set, whatever
\* order they were ingested in.
C32_OrderIndependent ==
    ingested = DOMAIN DataSet => Graph = InOrder(EmptyGraph, 1)

\* C33: an ingestion adds no more relationships to the store than the
\* relationships_created it returns, in every graph, those that hold several
\* event nodes of one id included.
C33_AddedAtMostReturned ==
    LastOk => Cardinality(last.added) <= last.result.relationships_created

\* C35: the graph only grows: no step removes a node or a relationship or
\* changes the properties of a relationship, so the relationship of a
\* reference entity to the node it referred to before stays when the entity
\* is ingested again with another foreign id.
C35_GraphOnlyGrows ==
    [][/\ \A k \in DOMAIN nodes : k \in DOMAIN nodes'
       /\ \A e \in DOMAIN edges : e \in DOMAIN edges' /\ edges'[e] = edges[e]]_vars

\* a doctor ingested with one hospital and then with another works at both
C35_Witness ==
    /\ LastOk
    /\ LastKind = "doctor"
    /\ \E e, f \in DOMAIN edges :
          /\ e[1] = "WORKS_AT" /\ f[1] = "WORKS_AT"
          /\ e[2] = f[2]
          /\ e[3] # f[3]
          /\ e[2] \in LastNodes

\* C36: the ingestion of a reference entity whose node is there writes every
\* field its handler manages: the value of the message, or the default of
\* the field when the message has none, whatever the node held; the node
\* keeps its id, no node is added, and the relationships that were there are
\* as they were.
C36_ReingestOverwrites ==
    [][(last'.called /\ last'.ok) =>
          \A data \in {last'.data} :
          \A kind \in {Kind(Get(data, "type", Absent))} :
              kind \in ReferenceKinds =>
                  \A before \in {Match(Graph, Title(kind), data["id"])} :
                      before # {} =>
                          /\ DOMAIN nodes' = DOMAIN nodes
                          /\ \A n \in before :
                                nodes'[n].props =
                                    ("id" :> data["id"]) @@
                                    [k \in ManagedFields(kind) |->
                                        IF k \in DOMAIN data THEN data[k]
                                        ELSE DefaultOf(k)]
                          /\ \A e \in DOMAIN edges :
                                e \in DOMAIN edges' /\ edges'[e] = edges[e]]_vars

\* a hospital that held a bed count and has a doctor working at it has been
\* ingested again with its name alone: the bed count is 0
C36_Witness ==
    /\ LastOk
    /\ LastKind = "hospital"
    /\ last.updated
    /\ "bed_count" \notin DOMAIN last.data
    /\ \E n \in LastNodes :
          /\ nodes[n].props["bed_count"] = 0
          /\ \E e \in DOMAIN edges : e[1] = "WORKS_AT" /\ e[3] = n

---------------------------------------------------------------------------
(* Properties of the demo automation                                       *)

\* C37: the cleanup runs a delete command for the Cloud Run service, the
\* topic or the subscription only when this run has made the resource: one
\* that was in the project before the run is left there.
C37_DeletesOnlyOwn == demo.pc # "none" => demo.deleted \subseteq demo.made

\* C38: when the user has accepted the cleanup and it has run, a delete
\* command has been run for every resource this run has made: the service,
\* the image, the topic and the two subscriptions.
C38_DeletesAllOwn ==
    (demo.pc = "done" /\ demo.accepted) => demo.made \subseteq demo.deleted

=============================================================================
